---- MODULE Spec2Model ----
(***************************************************************************)
(* A model of the chatbot repository: the Streamlit university FAQ bot     *)
(* (chatbot_app.py: session state, process_user_input and the resolution   *)
(* pipeline get_enhanced_response) and the desktop bot (app.py:            *)
(* get_response).                                                          *)
(*                                                                         *)
(* A text is a sequence of characters.  An ASCII character is a string of  *)
(* length one; any other character is written "U+XXXX", its code point in  *)
(* four hexadecimal digits.  A Python float is modelled bit-exactly as an  *)
(* IEEE-754 binary64 value (see the section on floats).                    *)
(***************************************************************************)
EXTENDS Integers, Sequences, FiniteSets, TLC

(***************************************************************************)
(* Characters and strings (Python str)                                     *)
(***************************************************************************)

\* The characters of an ASCII string literal.
Chars(s) == [i \in 1..Len(s) |-> SubSeq(s, i, i)]

UpperCase == Chars("ABCDEFGHIJKLMNOPQRSTUVWXYZ")

LowerCase == Chars("abcdefghijklmnopqrstuvwxyz")

\* str.lower() on one character (the ASCII letters; no other cased
\* character occurs in the inputs of the model).
LowerChar(c) ==
    IF \E i \in 1..26 : UpperCase[i] = c
    THEN LowerCase[CHOOSE i \in 1..26 : UpperCase[i] = c]
    ELSE c

\* str.lower()
lower(text) == [i \in 1..Len(text) |-> LowerChar(text[i])]

\* The characters str.strip() and str.split() treat as whitespace.
Whitespace == {" ", "\t", "\n", "\r"}

RECURSIVE lstrip(_)
lstrip(text) ==
    IF text # <<>> /\ Head(text) \in Whitespace THEN lstrip(Tail(text)) ELSE text

RECURSIVE rstrip(_)
rstrip(text) ==
    IF text # <<>> /\ text[Len(text)] \in Whitespace
    THEN rstrip(SubSeq(text, 1, Len(text) - 1))
    ELSE text

\* str.strip()
strip(text) == rstrip(lstrip(text))

\* Python's `sub in text` on strings.
Contains(sub, text) ==
    \E i \in 1..(Len(text) - Len(sub) + 1) : SubSeq(text, i, i + Len(sub) - 1) = sub

\* any(k in text for k in keywords)
ContainsAny(keywords, text) == \E k \in keywords : Contains(k, text)

\* str.startswith
StartsWith(text, prefix) ==
    Len(text) >= Len(prefix) /\ SubSeq(text, 1, Len(prefix)) = prefix

\* str.split(): the maximal runs of non-whitespace characters, in order.
RECURSIVE SplitFrom(_, _, _)
SplitFrom(text, i, word) ==
    IF i > Len(text)
    THEN IF word = <<>> THEN <<>> ELSE <<word>>
    ELSE IF text[i] \in Whitespace
         THEN IF word = <<>>
              THEN SplitFrom(text, i + 1, <<>>)
              ELSE <<word>> \o SplitFrom(text, i + 1, <<>>)
         ELSE SplitFrom(text, i + 1, Append(word, text[i]))

split(text) == SplitFrom(text, 1, <<>>)

\* set(text.split())
WordSet(text) == {split(text)[i] : i \in 1..Len(split(text))}

\* The value of one hexadecimal digit.
HexDigits == Chars("0123456789ABCDEF")

HexVal(d) == (CHOOSE i \in 1..16 : HexDigits[i] = d) - 1

\* ord(c) for a character written "U+XXXX".
CodePoint(c) ==
    LET h == Chars(c)
    IN  ((HexVal(h[3]) * 16 + HexVal(h[4])) * 16 + HexVal(h[5])) * 16 + HexVal(h[6])

\* re.search(r'[\u4e00-\u9fff]', text): some character of the text is a CJK
\* unified ideograph (U+4E00 = 19968, U+9FFF = 40959).
IsCJKChar(c) == Len(c) = 6 /\ CodePoint(c) >= 19968 /\ CodePoint(c) <= 40959

HasCJK(text) == \E i \in 1..Len(text) : IsCJKChar(text[i])

(***************************************************************************)
(* Python floats (IEEE-754 binary64, round to nearest, ties to even)       *)
(*                                                                         *)
(* A natural number of any size is a sequence of limbs, least significant  *)
(* first, each in 0..2^15-1, with no leading zero limb.  A float is zero   *)
(* or a record [m, e] standing for m * 2^e with 2^52 <= m < 2^53.         *)
(***************************************************************************)

Limb == 2^15

RECURSIVE BNorm(_)
BNorm(x) == IF x # <<>> /\ x[Len(x)] = 0 THEN BNorm(SubSeq(x, 1, Len(x) - 1)) ELSE x

RECURSIVE BFromInt(_)
BFromInt(n) == IF n = 0 THEN <<>> ELSE <<n % Limb>> \o BFromInt(n \div Limb)

BLimb(x, i) == IF i <= Len(x) THEN x[i] ELSE 0

RECURSIVE BAddFrom(_, _, _, _)
BAddFrom(x, y, i, carry) ==
    IF i > Len(x) /\ i > Len(y)
    THEN IF carry = 0 THEN <<>> ELSE <<carry>>
    ELSE LET t == BLimb(x, i) + BLimb(y, i) + carry
         IN  <<t % Limb>> \o BAddFrom(x, y, i + 1, t \div Limb)

BAdd(x, y) == BNorm(BAddFrom(x, y, 1, 0))

\* x times one limb d
RECURSIVE BMulLimbFrom(_, _, _, _)
BMulLimbFrom(x, d, i, carry) ==
    IF i > Len(x)
    THEN IF carry = 0 THEN <<>> ELSE <<carry>>
    ELSE LET t == x[i] * d + carry
         IN  <<t % Limb>> \o BMulLimbFrom(x, d, i + 1, t \div Limb)

Zeros(k) == [i \in 1..k |-> 0]

RECURSIVE BMulFrom(_, _, _)
BMulFrom(x, y, j) ==
    IF j > Len(y)
    THEN <<>>
    ELSE BAdd(BNorm(Zeros(j - 1) \o BMulLimbFrom(x, y[j], 1, 0)), BMulFrom(x, y, j + 1))

BMul(x, y) == BMulFrom(x, y, 1)

\* -1, 0 or 1 as x is less than, equal to or greater than y
RECURSIVE BCmpFrom(_, _, _)
BCmpFrom(x, y, i) ==
    IF i = 0 THEN 0
    ELSE IF x[i] < y[i] THEN -1
    ELSE IF x[i] > y[i] THEN 1
    ELSE BCmpFrom(x, y, i - 1)

BCmp(x, y) ==
    IF Len(x) < Len(y) THEN -1
    ELSE IF Len(x) > Len(y) THEN 1
    ELSE BCmpFrom(x, y, Len(x))

RECURSIVE IntBitLen(_)
IntBitLen(n) == IF n = 0 THEN 0 ELSE 1 + IntBitLen(n \div 2)

BBitLen(x) == IF x = <<>> THEN 0 ELSE 15 * (Len(x) - 1) + IntBitLen(x[Len(x)])

\* x * 2^s
BShl(x, s) ==
    IF x = <<>> THEN <<>>
    ELSE BNorm(Zeros(s \div 15) \o BMulLimbFrom(x, 2^(s % 15), 1, 0))

\* floor(x / 2^s)
BShr(x, s) ==
    LET k == s \div 15
        r == s % 15
        n == Len(x) - k
    IN  IF n <= 0 THEN <<>>
        ELSE BNorm([i \in 1..n |->
                 (x[k + i] \div 2^r) + (BLimb(x, k + i + 1) % 2^r) * 2^(15 - r)])

\* x mod 2^s
BLow(x, s) ==
    LET k == s \div 15
        r == s % 15
    IN  IF Len(x) <= k THEN x
        ELSE BNorm(SubSeq(x, 1, k) \o <<x[k + 1] % 2^r>>)

BIsOdd(x) == x # <<>> /\ x[1] % 2 = 1

\* <<floor(x / d), x mod d>> for 0 < d < 2^15
RECURSIVE BDivSmallFrom(_, _, _, _)
BDivSmallFrom(x, d, i, rem) ==
    IF i = 0 THEN <<<<>>, rem>>
    ELSE LET t    == rem * Limb + x[i]
             rest == BDivSmallFrom(x, d, i - 1, t % d)
         IN  <<Append(rest[1], t \div d), rest[2]>>

BDivSmall(x, d) ==
    LET qr == BDivSmallFrom(x, d, Len(x), 0)
    IN  <<BNorm(qr[1]), qr[2]>>

FZero == [m |-> <<>>, e |-> 0]

\* The float nearest to m * 2^e (ties to even).
Round53(m, e) ==
    LET len == BBitLen(m)
    IN  IF len = 0 THEN FZero
        ELSE IF len <= 53 THEN [m |-> BShl(m, 53 - len), e |-> e - (53 - len)]
        ELSE LET s    == len - 53
                 q    == BShr(m, s)
                 low  == BLow(m, s)
                 half == BShl(<<1>>, s - 1)
                 c    == BCmp(low, half)
                 up   == c = 1 \/ (c = 0 /\ BIsOdd(q))
                 q1   == IF up THEN BAdd(q, <<1>>) ELSE q
             IN  IF BBitLen(q1) = 54
                 THEN [m |-> BShr(q1, 1), e |-> e + s + 1]
                 ELSE [m |-> q1, e |-> e + s]

\* a / b for integers 0 <= a < 2^15 and 0 < b < 2^15 (int / int, and
\* float(a) / float(b)): the quotient to 90 fractional bits with a sticky
\* bit for the remainder, rounded once.
FDiv(a, b) ==
    IF a = 0 THEN FZero
    ELSE LET qr == BDivSmall(Zeros(6) \o <<a>>, b)
             m  == BAdd(BShl(qr[1], 1), IF qr[2] = 0 THEN <<>> ELSE <<1>>)
         IN  Round53(m, -91)

\* x * y
FMul(x, y) ==
    IF x.m = <<>> \/ y.m = <<>> THEN FZero
    ELSE Round53(BMul(x.m, y.m), x.e + y.e)

\* x + y
FAdd(x, y) ==
    IF x.m = <<>> THEN y
    ELSE IF y.m = <<>> THEN x
    ELSE IF x.e >= y.e
         THEN Round53(BAdd(BShl(x.m, x.e - y.e), y.m), y.e)
         ELSE Round53(BAdd(x.m, BShl(y.m, y.e - x.e)), x.e)

\* x < y (both are non-negative and in canonical form)
FLess(x, y) ==
    IF y.m = <<>> THEN FALSE
    ELSE IF x.m = <<>> THEN TRUE
    ELSE IF x.e # y.e THEN x.e < y.e
    ELSE BCmp(x.m, y.m) = -1

\* x > y
FGreater(x, y) == FLess(y, x)

\* The float literals of the sources.
F0_3 == FDiv(3, 10)

F0_4 == FDiv(4, 10)

F0_6 == FDiv(6, 10)

F0_75 == FDiv(75, 100)

F0_8 == FDiv(8, 10)

F0_9 == FDiv(9, 10)

F1_0 == FDiv(1, 1)

(***************************************************************************)
(* difflib.SequenceMatcher(None, a, b).ratio()                             *)
(* (no junk: autojunk only acts on a second sequence of 200 or more        *)
(* elements, and a knowledge-base question of the model is shorter)        *)
(***************************************************************************)

\* The number of positions from a[i], b[j] on at which a and b agree,
\* inside a[..ahi-1] and b[..bhi-1].
RECURSIVE MatchLen(_, _, _, _, _, _)
MatchLen(a, i, ahi, b, j, bhi) ==
    IF i < ahi /\ j < bhi /\ a[i] = b[j]
    THEN 1 + MatchLen(a, i + 1, ahi, b, j + 1, bhi)
    ELSE 0

Max(S) == CHOOSE x \in S : \A y \in S : y <= x

Min(S) == CHOOSE x \in S : \A y \in S : x <= y

\* find_longest_match(alo, ahi, blo, bhi): the longest block a[i..i+k-1] =
\* b[j..j+k-1] inside the two ranges; of the longest, the one that starts
\* earliest in a, and of those the one that starts earliest in b.
find_longest_match(a, alo, ahi, b, blo, bhi) ==
    LET I == alo..(ahi - 1)
        J == blo..(bhi - 1)
        k == Max({0} \cup {MatchLen(a, i, ahi, b, j, bhi) : i \in I, j \in J})
    IN  IF k = 0 THEN <<alo, blo, 0>>
        ELSE LET i == Min({x \in I : \E y \in J : MatchLen(a, x, ahi, b, y, bhi) = k})
                 j == Min({y \in J : MatchLen(a, i, ahi, b, y, bhi) = k})
             IN  <<i, j, k>>

\* get_matching_blocks: the total size of the matching blocks, found by
\* taking the longest block and recursing to its left and to its right.
RECURSIVE MatchTotal(_, _, _, _, _, _)
MatchTotal(a, alo, ahi, b, blo, bhi) ==
    LET m == find_longest_match(a, alo, ahi, b, blo, bhi)
        i == m[1]
        j == m[2]
        k == m[3]
    IN  IF k = 0 THEN 0
        ELSE k
             + (IF alo < i /\ blo < j THEN MatchTotal(a, alo, i, b, blo, j) ELSE 0)
             + (IF i + k < ahi /\ j + k < bhi
                THEN MatchTotal(a, i + k, ahi, b, j + k, bhi) ELSE 0)

\* ratio(): 2.0 * matches / length, and 1.0 for two empty sequences.
ratio(a, b) ==
    IF Len(a) + Len(b) = 0 THEN F1_0
    ELSE FDiv(2 * MatchTotal(a, 1, Len(a) + 1, b, 1, Len(b) + 1), Len(a) + Len(b))

(***************************************************************************)
(* chatbot_app.py: configuration and constants                             *)
(*                                                                         *)
(* A user text is a sequence of characters.  A bot response is a string;   *)
(* an emoji of the source is written as its short code (":wave:") and a    *)
(* Chinese response by its code points.                                    *)
(***************************************************************************)

LANG_CODES == [en |-> "en", zhcn |-> "zh-CN"]

\* LANG_CODES.get(lang, "en")
LangCode(lang) ==
    IF lang = "en" THEN LANG_CODES.en
    ELSE IF lang = "zh-cn" THEN LANG_CODES.zhcn
    ELSE "en"

GREETING_PATTERNS(lang) ==
    IF lang = "en"
    THEN {Chars("hello"), Chars("hi"), Chars("hey"), Chars("good morning"),
          Chars("good afternoon"), Chars("good evening"), Chars("greetings"),
          Chars("hola")}
    ELSE IF lang = "zh-cn"
    THEN {<<"U+4F60", "U+597D">>, <<"U+60A8", "U+597D">>,
          <<"U+65E9", "U+4E0A", "U+597D">>, <<"U+4E0B", "U+5348", "U+597D">>,
          <<"U+665A", "U+4E0A", "U+597D">>, <<"U+55E8">>, Chars("hi"), Chars("hello")}
    ELSE {}

course_keywords ==
    {Chars("course"), Chars("program"), Chars("study"), Chars("curriculum"),
     Chars("syllabus"), Chars("major"),
     <<"U+8BFE", "U+7A0B">>, <<"U+4E13", "U+4E1A">>, <<"U+5B66", "U+4E60">>,
     <<"U+8BFE", "U+8868">>, <<"U+79D1", "U+76EE">>}

fee_keywords ==
    {Chars("fee"), Chars("cost"), Chars("price"), Chars("tuition"),
     Chars("payment"), Chars("money"),
     <<"U+8D39", "U+7528">>, <<"U+5B66", "U+8D39">>, <<"U+4EF7", "U+683C">>,
     <<"U+4ED8", "U+6B3E">>, <<"U+94B1">>}

time_keywords ==
    {Chars("time"), Chars("when"), Chars("schedule"), Chars("calendar"),
     Chars("hours"),
     <<"U+65F6", "U+95F4">>, <<"U+4EC0", "U+4E48", "U+65F6", "U+5019">>,
     <<"U+65E5", "U+7A0B">>, <<"U+65E5", "U+5386">>, <<"U+5C0F", "U+65F6">>}

\* COURSES, in the order of the dict.
COURSES ==
    << [name |-> "computer science",
        description |-> "Computer Science prepares students to design, develop, and analyze software systems. Focuses on problem-solving, programming skills, and understanding computing theory.",
        duration |-> "4 years (8 semesters)",
        career_prospects |-> "Software Developer, Data Scientist, AI Engineer, System Analyst, Cybersecurity Specialist",
        keywords |-> {Chars("computer"), Chars("cs"), Chars("programming"),
                      Chars("software"), Chars("coding"),
                      <<"U+8BA1", "U+7B97", "U+673A">>, <<"U+7F16", "U+7A0B">>,
                      <<"U+8F6F", "U+4EF6">>}],
       [name |-> "information technology",
        description |-> "Information Technology focuses on applying technology to solve business problems. Emphasizes networking, system administration, and IT management.",
        duration |-> "3 years (6 semesters)",
        career_prospects |-> "IT Manager, Network Administrator, System Analyst, IT Consultant, Database Administrator",
        keywords |-> {Chars("it"), Chars("information technology"),
                      Chars("networking"), Chars("systems"),
                      <<"U+4FE1", "U+606F", "U+6280", "U+672F">>, <<"U+7F51", "U+7EDC">>}],
       [name |-> "business",
        description |-> "Business studies prepare students for management roles. Covers finance, marketing, operations, and strategic management.",
        duration |-> "3 years (6 semesters)",
        career_prospects |-> "Business Manager, Marketing Executive, Financial Analyst, HR Manager, Entrepreneur",
        keywords |-> {Chars("business"), Chars("management"), Chars("marketing"),
                      Chars("finance"), Chars("mba"),
                      <<"U+5546", "U+4E1A">>, <<"U+7BA1", "U+7406">>, <<"U+8425", "U+9500">>}],
       [name |-> "engineering",
        description |-> "Engineering programs develop problem-solving, design, and technical skills across various fields such as mechanical, electrical, or civil engineering.",
        duration |-> "4 years (8 semesters)",
        career_prospects |-> "Mechanical Engineer, Electrical Engineer, Civil Engineer, Project Manager, Design Engineer",
        keywords |-> {Chars("engineering"), Chars("mechanical"), Chars("civil"),
                      Chars("electrical"),
                      <<"U+5DE5", "U+7A0B">>, <<"U+673A", "U+68B0">>, <<"U+7535", "U+6C14">>}],
       [name |-> "nursing",
        description |-> "Nursing programs prepare students to provide healthcare, patient care, and clinical support. Aims include patient safety, clinical skills, and health assessment.",
        duration |-> "4 years (8 semesters)",
        career_prospects |-> "Registered Nurse, Clinical Nurse, Nurse Manager, Public Health Nurse, Nurse Educator",
        keywords |-> {Chars("nursing"), Chars("healthcare"), Chars("clinical"),
                      Chars("patient"), Chars("medical"),
                      <<"U+62A4", "U+7406">>, <<"U+533B", "U+7597">>, <<"U+4E34", "U+5E8A">>}] >>

\* st.session_state.current_course = None
None == "None"

\* The sample knowledge base written when the data file does not exist.
sample_data ==
    << [question |-> Chars("what are the admission requirements"),
        answer |-> "Admission requirements include a high school diploma with minimum GPA of 3.0, English proficiency test scores, and completed application form."],
       [question |-> Chars("how much is tuition fee"),
        answer |-> "Tuition fees vary by program. Domestic students pay RM 10,000 per semester, international students pay RM 15,000 per semester."],
       [question |-> Chars("when do classes start"),
        answer |-> "Classes typically start in January, May, and September. Please check the academic calendar for exact dates."],
       [question |-> Chars("what courses are available"),
        answer |-> "We offer programs in Computer Science, Information Technology, Business, Engineering, and Nursing."],
       [question |-> Chars("how to apply for scholarship"),
        answer |-> "Scholarships are available based on academic merit, financial need, and special talents. Apply through our scholarship portal."],
       [question |-> Chars("library hours"),
        answer |-> "Library is open Monday-Friday: 8:00 AM - 10:00 PM, Saturday-Sunday: 9:00 AM - 6:00 PM."],
       [question |-> Chars("campus facilities"),
        answer |-> "Campus facilities include modern classrooms, computer labs, library, cafeteria, gymnasium, and student center."],
       [question |-> Chars("student housing"),
        answer |-> "On-campus housing is available for both domestic and international students. Applications must be submitted by June 1st."],
       [question |-> Chars("exam schedule"),
        answer |-> "Exam schedules are published 4 weeks before the exam period. Check the student portal for updates."],
       [question |-> Chars("office hours"),
        answer |-> "Faculty office hours are typically Monday-Friday: 9:00 AM - 5:00 PM. Individual faculty may have different schedules."] >>

\* A data file (university_faq_dataset.csv) an operator of the bot has put
\* in place: its questions are not yet trimmed or lower-cased, and two rows
\* ask the same question.
CsvFile ==
    << [question |-> Chars(" Parking Permit "),
        answer |-> "Parking permits are sold at the security office."],
       [question |-> Chars("parking permit"),
        answer |-> "See the parking page of the student portal."],
       [question |-> Chars("Bus Route"),
        answer |-> "The campus shuttle runs every 20 minutes."] >>

\* A data file with a row whose question cell is empty: pd.read_csv reads
\* the cell as NaN.
CsvFileWithGap ==
    << [question |-> Chars("bus route"),
        answer |-> "The campus shuttle runs every 20 minutes."],
       [question |-> <<>>,
        answer |-> "Ask at the front desk."] >>

\* The question of a row whose cell was empty: a float, not a string.
NaN == <<"nan">>

\* The states of the data file: absent, present, unreadable.
KbFiles == {"missing", "csv", "unreadable"}

\* The state of the data file with the empty cell.
GapFiles == {"gap"}

\* A loader that answers a failure with the sample data.
load_knowledge_base_sample_on_error(file) ==
    LET df == IF file \in {"missing", "unreadable"} THEN sample_data
              ELSE IF file = "gap" THEN CsvFileWithGap
              ELSE CsvFile
    IN  [i \in 1..Len(df) |->
           [question |-> IF df[i].question = <<>> THEN NaN
                         ELSE lower(strip(df[i].question)),
            answer |-> df[i].answer]]

\* load_knowledge_base(): the sample data when the file does not exist,
\* else the rows of the file; the questions trimmed and lower-cased; an
\* empty frame when anything fails.
load_knowledge_base(file) ==
    IF file = "unreadable" THEN <<>>
    ELSE LET df == IF file = "missing" THEN sample_data
                    ELSE IF file = "gap" THEN CsvFileWithGap
                    ELSE CsvFile
         IN  [i \in 1..Len(df) |->
                [question |-> IF df[i].question = <<>> THEN NaN
                              ELSE lower(strip(df[i].question)),
                 answer |-> df[i].answer]]

(***************************************************************************)
(* chatbot_app.py: validation, translation, language detection             *)
(***************************************************************************)

\* The characters validate_input removes: re.sub(r'[<>"\']', '', ...)
Unsafe == {"<", ">", "\"", "'"}

MaxInputLen == 500

\* validate_input(text): the text trimmed and without the unsafe
\* characters; ChatbotException for no text and for a sanitized text of
\* more than 500 characters.
validate_input(text) ==
    LET sanitized == SelectSeq(strip(text), LAMBDA c : c \notin Unsafe)
    IN  IF Len(text) = 0
        THEN [raised |-> TRUE, value |-> text, message |-> "Invalid input provided"]
        ELSE IF Len(sanitized) > MaxInputLen
        THEN [raised |-> TRUE, value |-> text,
              message |-> "Input too long. Please limit to 500 characters."]
        ELSE [raised |-> FALSE, value |-> sanitized, message |-> ""]

\* What GoogleTranslator(...).translate(text) does: its result, an empty
\* result, or an exception.
TranslatorOutcomes == {"translated", "empty", "error"}

\* The result of the translation service for `text` into language `code`.
GoogleTranslate(text, code) == "[" \o code \o "] " \o text

\* A safe_translate that returns what the service returns, empty or not.
safe_translate_unchecked(text, target_lang, source_lang, outcome) ==
    IF Len(text) = 0 \/ target_lang = "en" THEN text
    ELSE IF outcome = "translated" THEN GoogleTranslate(text, LangCode(target_lang))
    ELSE IF outcome = "empty" THEN ""
    ELSE text

\* safe_translate(text, target_lang, source_lang): the text itself when it
\* is empty or the target is English, else the service's result, and the
\* text again when the service returns nothing or raises.
safe_translate(text, target_lang, source_lang, outcome) ==
    IF Len(text) = 0 \/ target_lang = "en" THEN text
    ELSE IF outcome = "translated" THEN GoogleTranslate(text, LangCode(target_lang))
    ELSE text

\* What langdetect.detect(text) does: a language code, or an exception.
DetectorOutcomes == {"en", "zh-cn", "zh", "zh-tw", "fr", "error"}

\* A safe_detect_language that asks the detector first and looks for
\* Chinese characters only when the detector fails.
safe_detect_language_detector_first(text, detected) ==
    IF Len(text) = 0 THEN "en"
    ELSE IF detected = "error" THEN (IF HasCJK(text) THEN "zh-cn" ELSE "en")
    ELSE IF detected \in {"zh", "zh-cn", "zh-tw"} THEN "zh-cn"
    ELSE LangCode(detected)

\* safe_detect_language(text)
safe_detect_language(text, detected) ==
    IF Len(text) = 0 THEN "en"
    ELSE IF HasCJK(text) THEN "zh-cn"
    ELSE IF detected = "error" THEN "en"
    ELSE IF detected \in {"zh", "zh-cn", "zh-tw"} THEN "zh-cn"
    ELSE LangCode(detected)

(***************************************************************************)
(* chatbot_app.py: intent classification and the handlers                  *)
(***************************************************************************)

\* A classification that checks the time keywords first.
classify_intent_time_first(user_input, detected_lang) ==
    LET user_input_lower == lower(user_input)
    IN  IF ContainsAny(time_keywords, user_input_lower) THEN "time"
        ELSE IF ContainsAny(GREETING_PATTERNS(detected_lang), user_input_lower) THEN "greeting"
        ELSE IF ContainsAny(GREETING_PATTERNS("en"), user_input_lower) THEN "greeting"
        ELSE IF ContainsAny(course_keywords, user_input_lower) THEN "course_inquiry"
        ELSE IF ContainsAny(fee_keywords, user_input_lower) THEN "fees"
        ELSE "general"

\* classify_intent_multilingual(user_input, detected_lang)
classify_intent_multilingual(user_input, detected_lang) ==
    LET user_input_lower == lower(user_input)
    IN  IF ContainsAny(GREETING_PATTERNS(detected_lang), user_input_lower) THEN "greeting"
        ELSE IF ContainsAny(GREETING_PATTERNS("en"), user_input_lower) THEN "greeting"
        ELSE IF ContainsAny(course_keywords, user_input_lower) THEN "course_inquiry"
        ELSE IF ContainsAny(fee_keywords, user_input_lower) THEN "fees"
        ELSE IF ContainsAny(time_keywords, user_input_lower) THEN "time"
        ELSE "general"

\* handle_greeting(lang)
handle_greeting(lang) ==
    IF lang = "zh-cn"
    THEN "U+60A8 U+597D U+FF01 :wave: U+6B22 U+8FCE U+6765 U+5230 U+6211 U+4EEC U+5927 U+5B66 U+3002"
    ELSE "Hello! :wave: Welcome to our University. I'm here to help you with information about our courses, admissions, fees, and more. How can I assist you today?"

UpperChar(c) ==
    IF \E i \in 1..26 : LowerCase[i] = c
    THEN UpperCase[CHOOSE i \in 1..26 : LowerCase[i] = c]
    ELSE c

IsLetter(c) == \E i \in 1..26 : LowerCase[i] = c \/ UpperCase[i] = c

RECURSIVE Str(_)
Str(chars) == IF chars = <<>> THEN "" ELSE Head(chars) \o Str(Tail(chars))

\* str.title(): each word starts with a capital, the rest is lower-case.
title(name) ==
    LET c == Chars(name)
    IN  Str([i \in 1..Len(c) |->
               IF i = 1 \/ ~IsLetter(c[i - 1]) THEN UpperChar(c[i]) ELSE LowerChar(c[i])])

\* The courses a keyword of which occurs in the translated or in the
\* original input.
MentionedCourses(user_input, original_input) ==
    {i \in 1..Len(COURSES) :
        \/ ContainsAny(COURSES[i].keywords, user_input)
        \/ ContainsAny(COURSES[i].keywords, lower(original_input))}

\* handle_course_inquiry(user_input, lang, original_input): the first
\* course of COURSES that is mentioned becomes the current course; with no
\* course mentioned, the list of programs.
\* A handle_course_inquiry that forgets the course of the conversation when
\* it lists the programs.
handle_course_inquiry_forgets(user_input, lang, original_input, current_course) ==
    LET found == MentionedCourses(user_input, original_input)
    IN  IF found # {}
        THEN [response |-> title(COURSES[Min(found)].name), confidence |-> F0_9,
              current_course |-> COURSES[Min(found)].name]
        ELSE [response |-> "We offer the following programs", confidence |-> F0_8,
              current_course |-> None]

handle_course_inquiry(user_input, lang, original_input, current_course) ==
    LET found == MentionedCourses(user_input, original_input)
    IN  IF found # {}
        THEN LET course_data == COURSES[Min(found)]
             IN  [response |->
                      ":books: **" \o title(course_data.name) \o "**\n\n"
                      \o "**Description:** " \o course_data.description \o "\n\n"
                      \o "**Duration:** " \o course_data.duration \o "\n\n"
                      \o "**Career Prospects:** " \o course_data.career_prospects \o "\n\n"
                      \o "Would you like to know more about the curriculum or admission requirements?",
                  confidence |-> F0_9,
                  current_course |-> course_data.name]
        ELSE [response |->
                  ":mortar_board: We offer the following programs:\n\n"
                  \o "U+2022 **Computer Science**\nU+2022 **Information Technology**\n"
                  \o "U+2022 **Business**\nU+2022 **Engineering**\nU+2022 **Nursing**\n"
                  \o "\nWhich program would you like to know more about?",
              confidence |-> F0_8,
              current_course |-> current_course]

\* A fee handler that does not read the current course.
handle_fees_inquiry_no_topic(user_input, lang, current_course) ==
    IF Contains(Chars("international"), user_input)
    THEN [response |-> ":moneybag: Tuition fees are **RM 15,000** per semester for international students.",
          confidence |-> F1_0]
    ELSE [response |-> ":moneybag: Tuition fees are **RM 10,000** per semester for domestic students.",
          confidence |-> F1_0]

\* handle_fees_inquiry(user_input, lang): reads the current course.
handle_fees_inquiry(user_input, lang, current_course) ==
    LET international == Contains(Chars("international"), user_input)
                           \/ Contains(<<"U+56FD", "U+9645">>, user_input)
        domestic == Contains(Chars("domestic"), user_input)
                      \/ Contains(Chars("local"), user_input)
                      \/ Contains(<<"U+672C", "U+5730">>, user_input)
        student_type == IF international THEN "international" ELSE "domestic"
        fee == IF international THEN "RM 15,000" ELSE "RM 10,000"
    IN  IF ~international /\ ~domestic
        THEN [response |->
                  ":moneybag: **Tuition Fees:**\n\n"
                  \o "U+2022 **Domestic Students:** RM 10,000 per semester\n"
                  \o "U+2022 **International Students:** RM 15,000 per semester\n\n"
                  \o "Additional fees may apply for laboratory, library, and other facilities.\n"
                  \o "Would you like information about scholarships or payment plans?",
              confidence |-> F1_0]
        ELSE IF current_course # None
        THEN [response |->
                  ":moneybag: The tuition fees for **" \o title(current_course)
                  \o "** are **" \o fee \o "** per semester for " \o student_type
                  \o " students.",
              confidence |-> F1_0]
        ELSE [response |->
                  ":moneybag: Tuition fees are **" \o fee \o "** per semester for "
                  \o student_type \o " students.",
              confidence |-> F1_0]

\* Two digits, as strftime's %I, %M, %H, %d and %m print a number.
Pad2(n) == IF n < 10 THEN "0" \o ToString(n) ELSE ToString(n)

MonthNames ==
    << "January", "February", "March", "April", "May", "June", "July",
       "August", "September", "October", "November", "December" >>

\* handle_time_query(lang), with `now` the value of datetime.datetime.now()
handle_time_query(lang, now) ==
    IF lang = "zh-cn"
    THEN ":clock3: U+5F53 U+524D U+65F6 U+95F4 U+FF1A" \o ToString(now.year) \o "U+5E74"
         \o Pad2(now.month) \o "U+6708" \o Pad2(now.day) \o "U+65E5 "
         \o Pad2(now.hour) \o ":" \o Pad2(now.minute)
    ELSE ":clock3: Current time: "
         \o Pad2(IF now.hour % 12 = 0 THEN 12 ELSE now.hour % 12) \o ":" \o Pad2(now.minute)
         \o " " \o (IF now.hour < 12 THEN "AM" ELSE "PM")
         \o " on " \o MonthNames[now.month] \o " " \o Pad2(now.day) \o ", "
         \o ToString(now.year)

(***************************************************************************)
(* chatbot_app.py: fuzzy matching against the knowledge base               *)
(***************************************************************************)

\* combined_score of one question: 0.6 times the word overlap (size of the
\* intersection over size of the union of the two word sets, 0 when both
\* are empty) plus 0.4 times the sequence similarity.
combined_score(user_input, question) ==
    LET user_words     == WordSet(lower(user_input))
        question_words == WordSet(question)
        overlap        == Cardinality(user_words \cap question_words)
        union          == user_words \cup question_words
        overlap_ratio  == IF union # {} THEN FDiv(overlap, Cardinality(union)) ELSE FZero
        seq_ratio      == ratio(lower(user_input), question)
    IN  FAdd(FMul(overlap_ratio, F0_6), FMul(seq_ratio, F0_4))

\* The test that puts a question among the matches.
Accepted(score) == FGreater(score, F0_3)

\* The accepted question with the highest score, the latest of them in
\* the knowledge base when several have it.
best_match_latest(matches) ==
    CHOOSE x \in matches : \A y \in matches :
        /\ ~FGreater(y[2], x[2])
        /\ (y[1] > x[1] => FLess(y[2], x[2]))

\* The accepted question with the highest score, the earliest of them in
\* the knowledge base when several have it (the sort is stable).
best_match(matches) ==
    CHOOSE x \in matches : \A y \in matches :
        /\ ~FGreater(y[2], x[2])
        /\ (y[1] < x[1] => FLess(y[2], x[2]))

\* What fuzzy_match_kb returns for the accepted questions `matches`, each
\* a pair of its place in the knowledge base and its score.
MatchResult(knowledge_base, matches) ==
    IF matches # {}
    THEN [response |-> knowledge_base[best_match(matches)[1]].answer,
          confidence |-> best_match(matches)[2], raised |-> FALSE]
    ELSE [response |-> "No relevant information found.",
          confidence |-> FZero, raised |-> FALSE]

\* fuzzy_match_kb(user_input, knowledge_base): the answer and the score of
\* the accepted question with the highest score.  With a question that is
\* NaN, question.split() of line 448 raises AttributeError.
fuzzy_match_kb(user_input, knowledge_base) ==
    IF knowledge_base = <<>>
    THEN [response |-> "Knowledge base is empty.", confidence |-> FZero, raised |-> FALSE]
    ELSE IF \E idx \in 1..Len(knowledge_base) : knowledge_base[idx].question = NaN
    THEN [response |-> "", confidence |-> FZero, raised |-> TRUE]
    ELSE MatchResult(knowledge_base,
                     {x \in {<<idx, combined_score(user_input, knowledge_base[idx].question)>> :
                                 idx \in 1..Len(knowledge_base)} :
                        Accepted(x[2])})

(***************************************************************************)
(* The inputs of the model                                                 *)
(***************************************************************************)

\* The quick-question buttons of chat_interface.
quick_options ==
    << Chars("What courses do you offer?"), Chars("Admission requirements"),
       Chars("Tuition fees"), Chars("Campus facilities"),
       Chars("Scholarship information"), Chars("Academic calendar") >>

\* A text of 501 characters.
LongText == [i \in 1..(MaxInputLen + 1) |-> "a"]

\* The texts a user types into the chat form.
TypedTexts ==
    { <<>>, Chars("   "),
      Chars("hello"), Chars("what time is it"), Chars("hi what time is it"),
      Chars("library hours"), Chars("campus facilities"), Chars("xyzzy plugh"),
      Chars("campus x y z ff"), Chars("parking permit"),
      Chars("nursing program"), Chars("international fee"), Chars("<b>course</b>"),
      <<"U+56FD", "U+9645", "U+5B66", "U+8D39">>,
      LongText }

\* The texts process_user_input is called with from another call site.
CallTexts == { <<>>, Chars("hello"), Chars("nursing program") }

\* The texts of a session in which stages fail.
FaultTexts ==
    { Chars("hello"), Chars("xyzzy plugh"), Chars("bus route"), Chars("nursing program"),
      LongText }

\* The texts of a conversation about courses and their fees.
TopicTexts ==
    { Chars("nursing program"), Chars("software course"), Chars("international fee"),
      Chars("tuition fee") }

\* The texts of a long conversation.
WindowTexts == { Chars("hello"), Chars("xyzzy plugh") }

\* Bounds of the model: the turns of a conversation, of a long one, and
\* of one about courses.
MaxTurns == 2

TopicTurns == 3

WindowTurns == 11

\* Every text process_user_input may be called with.
AllTexts == TypedTexts \cup WindowTexts \cup FaultTexts \cup TopicTexts \cup {quick_options[i] : i \in 1..Len(quick_options)}

\* The values of datetime.datetime.now() of the model.
Clock ==
    { [year |-> 2026, month |-> 1, day |-> 5, hour |-> 9, minute |-> 5],
      [year |-> 2025, month |-> 12, day |-> 31, hour |-> 23, minute |-> 59] }

(***************************************************************************)
(* chatbot_app.py: get_enhanced_response                                   *)
(***************************************************************************)

\* fuzzy_match_kb for every input text of the model that passes
\* validation and every state of the data file, computed once.
FuzzyTable ==
    { <<file, validate_input(t).value,
        fuzzy_match_kb(validate_input(t).value, load_knowledge_base(file))>> :
        file \in KbFiles \cup GapFiles, t \in {x \in AllTexts : ~validate_input(x).raised} }

\* The entry of a table of computed results for the arguments k1 and k2,
\* and `otherwise` where the table has none.
Lookup(table, k1, k2, otherwise) ==
    IF \E x \in table : x[1] = k1 /\ x[2] = k2
    THEN (CHOOSE x \in table : x[1] = k1 /\ x[2] = k2)[3]
    ELSE otherwise

\* fuzzy_match_kb(user_input, load_knowledge_base()), read from the table
\* where the table has it.
cached_fuzzy_match_kb(user_input, file) ==
    Lookup(FuzzyTable, file, user_input,
           fuzzy_match_kb(user_input, load_knowledge_base(file)))

\* classify_intent_multilingual for every input text of the model that
\* passes validation and either language, computed once.
IntentTable ==
    { <<validate_input(t).value, lang,
        classify_intent_multilingual(validate_input(t).value, lang)>> :
        t \in {x \in AllTexts : ~validate_input(x).raised}, lang \in {"en", "zh-cn"} }

\* classify_intent_multilingual(user_input, detected_lang), read from the
\* table where the table has it.
cached_classify_intent(user_input, detected_lang) ==
    Lookup(IntentTable, user_input, detected_lang,
           classify_intent_multilingual(user_input, detected_lang))

fallback_responses(lang) ==
    IF lang = "zh-cn"
    THEN "U+62B1 U+6B49 U+FF0C U+6211 U+6CA1 U+6709 U+76F8 U+5173 U+4FE1 U+606F U+3002"
    ELSE "I'm sorry, I don't have information about that. Could you please rephrase your question or ask about our courses, admissions, fees, or facilities?"

error_msg(lang) ==
    IF lang = "zh-cn"
    THEN "U+62B1 U+6B49 U+FF0C U+6211 U+9047 U+5230 U+4E86 U+9519 U+8BEF U+3002 U+8BF7 U+91CD U+8BD5 U+3002"
    ELSE "I apologize, but I encountered an error. Please try again."

\* The results safe_translate(text, target_lang, source_lang) can have:
\* one for each thing the translation service can do when it is called.
translations(text, target_lang, source_lang) ==
    {safe_translate(text, target_lang, source_lang, outcome) : outcome \in TranslatorOutcomes}

\* Lines 299-301 of get_enhanced_response: translated_input is user_input,
\* and for a detected language other than English it is
\* safe_translate(user_input, "en", detected_lang); `outcome` is what the
\* translation service does if it is called.
TranslatedInput(user_input, detected_lang, outcome) ==
    IF detected_lang # "en"
    THEN safe_translate(user_input, "en", detected_lang, outcome)
    ELSE user_input

\* The handlers of the intents other than `general`.
HandleIntent(intent, user_input, translated_input, detected_lang, current_course) ==
    LET user_input_lower == lower(translated_input)
    IN  IF intent = "greeting"
        THEN {[response |-> handle_greeting(detected_lang), confidence |-> F1_0,
               current_course |-> current_course, called |-> {"handle_greeting"}, raised |-> FALSE]}
        ELSE IF intent = "course_inquiry"
        THEN LET r == handle_course_inquiry(user_input_lower, detected_lang,
                                            user_input, current_course)
             IN  {[response |-> r.response, confidence |-> r.confidence,
                   current_course |-> r.current_course,
                   called |-> {"handle_course_inquiry"}, raised |-> FALSE]}
        ELSE IF intent = "fees"
        THEN LET r == handle_fees_inquiry(user_input_lower, detected_lang, current_course)
             IN  {[response |-> r.response, confidence |-> r.confidence,
                   current_course |-> current_course, called |-> {"handle_fees_inquiry"}, raised |-> FALSE]}
        ELSE {[response |-> handle_time_query(detected_lang, now), confidence |-> F1_0,
               current_course |-> current_course, called |-> {"handle_time_query"}, raised |-> FALSE] :
                 now \in Clock}

\* The answer of the knowledge-base stage for the result r of the fuzzy
\* match: the fallback for a confidence below 0.3.
KbAnswer(r, detected_lang, current_course) ==
    IF r.raised
    THEN {[response |-> "", confidence |-> FZero, current_course |-> current_course,
           called |-> {"fuzzy_match_kb"}, raised |-> TRUE]}
    ELSE IF FLess(r.confidence, F0_3)
    THEN {[response |-> fallback_responses(detected_lang),
           confidence |-> FZero, current_course |-> current_course,
           called |-> {"fuzzy_match_kb"}, raised |-> FALSE]}
    ELSE {[response |-> r.response, confidence |-> r.confidence,
           current_course |-> current_course, called |-> {"fuzzy_match_kb"},
           raised |-> FALSE]}

\* The knowledge-base stage of get_enhanced_response: the fuzzy match, and
\* the fallback for a confidence below 0.3.
GeneralStage(translated_input, detected_lang, file, current_course) ==
    KbAnswer(cached_fuzzy_match_kb(translated_input, file), detected_lang, current_course)

\* An answer stage that looks at the knowledge base before the handlers,
\* and takes its answer when it has one.
AnswerIntentKbFirst(intent, user_input, translated_input, detected_lang, file, current_course) ==
    LET r == cached_fuzzy_match_kb(translated_input, file)
    IN  IF intent = "general" \/ ~FLess(r.confidence, F0_3)
        THEN GeneralStage(translated_input, detected_lang, file, current_course)
        ELSE {[a EXCEPT !.called = @ \cup {"fuzzy_match_kb"}] :
                a \in HandleIntent(intent, user_input, translated_input, detected_lang,
                                   current_course)}

\* An answer stage without the fallback: the knowledge-base stage returns
\* what fuzzy_match_kb returns.
AnswerIntentNoFallback(intent, user_input, translated_input, detected_lang, file, current_course) ==
    IF intent = "general"
    THEN LET r == cached_fuzzy_match_kb(translated_input, file)
         IN  {[response |-> r.response, confidence |-> r.confidence,
               current_course |-> current_course, called |-> {"fuzzy_match_kb"},
               raised |-> r.raised]}
    ELSE HandleIntent(intent, user_input, translated_input, detected_lang, current_course)

\* The stage of get_enhanced_response that answers an intent, with the
\* functions it calls; `general` is the fuzzy match with its fallback.  The
\* results it can have: one for each value of the clock where the clock is
\* read.
AnswerIntent(intent, user_input, translated_input, detected_lang, file, current_course) ==
    IF intent = "general"
    THEN GeneralStage(translated_input, detected_lang, file, current_course)
    ELSE HandleIntent(intent, user_input, translated_input, detected_lang, current_course)

\* An except clause that reports the error with full confidence.
ErrorResultConfident(user_input, detected_lang, current_course, called) ==
    [response |-> error_msg(detected_lang), confidence |-> F1_0,
     translated_input |-> user_input, intent |-> "error",
     current_course |-> current_course, called |-> called]

\* The except clause of get_enhanced_response, lines 330-335: what it
\* returns, with `user_input` the value that variable has when the
\* exception is raised.
ErrorResult(user_input, detected_lang, current_course, called) ==
    [response |-> error_msg(detected_lang), confidence |-> FZero,
     translated_input |-> user_input, intent |-> "error",
     current_course |-> current_course, called |-> called]

\* get_enhanced_response(user_input, detected_lang): the response, its
\* confidence, the translated input and the intent, with the value it
\* leaves in st.session_state.current_course and the stage functions it
\* called.  `file` is the state of the data file.  The results it can have:
\* one for each thing the clock and the translation service can do.  An
\* exception of validate_input or of a stage ends in the except clause.
get_enhanced_response(user_input, detected_lang, file, current_course) ==
    LET v == validate_input(user_input)
    IN  IF v.raised
        THEN {ErrorResult(user_input, detected_lang, current_course, {"validate_input"})}
        ELSE LET intent == cached_classify_intent(v.value, detected_lang)
                 inputs == {TranslatedInput(v.value, detected_lang, outcome) :
                              outcome \in TranslatorOutcomes}
             IN  UNION { UNION { IF a.raised
                                 THEN {ErrorResult(v.value, detected_lang, a.current_course,
                                                   {"validate_input",
                                                    "classify_intent_multilingual"}
                                                     \cup a.called)}
                                 ELSE
                                 {[response |-> response, confidence |-> a.confidence,
                                   translated_input |-> translated_input, intent |-> intent,
                                   current_course |-> a.current_course,
                                   called |-> {"validate_input", "classify_intent_multilingual"}
                                                \cup a.called] :
                                     response \in
                                       IF detected_lang # "en" /\ FGreater(a.confidence, FZero)
                                       THEN translations(a.response, detected_lang, "auto")
                                       ELSE {a.response}} :
                                 a \in AnswerIntent(intent, v.value, translated_input,
                                                    detected_lang, file, current_course)} :
                         translated_input \in inputs}

(***************************************************************************)
(* chatbot_app.py: the session                                             *)
(***************************************************************************)

VARIABLES
    program,                \* the script that runs: "chatbot_app.py" or "app.py"
    budget,                 \* the turns of this run
    history,                \* st.session_state.history
    session_id,             \* st.session_state.session_id
    course_pending,         \* st.session_state.course_pending
    current_course,         \* st.session_state.current_course
    user_language,          \* st.session_state.user_language
    conversation_context,   \* st.session_state.conversation_context
    processing,             \* st.session_state.processing
    last_processed,         \* st.session_state.last_processed
    chat_input,             \* st.session_state.chat_input ("unset" before line 792)
    kb_file,                \* the state of the knowledge-base data file
    logs,                   \* the entries of the log file, each by its conversation_turn
    pc,                     \* "idle", or "running": process_user_input is past line 762
    call,                   \* the user_input of the running process_user_input
    turns,                  \* the calls of process_user_input that set the guard
    event,                  \* the last operation and what it did
    last,                   \* the values of the last turn that ran lines 765-786
    processed               \* the context entries pushed since the last clear

\* app.py: the state of the desktop chatbot.
VARIABLES
    context_memory,         \* context_memory: user id -> the last message
    chat_log,               \* the lines of the chat_log text widget
    icon,                   \* the image of icon_label ("" for none)
    faq_file,               \* the state of faq.csv
    sends,                  \* the calls of send()
    app_last                \* the values of the last call of get_response

session ==
    << history, session_id, course_pending, current_course, user_language,
       conversation_context, processing, last_processed, chat_input >>

chat_vars == << session, kb_file, logs, pc, call, turns, event, last, processed >>

app_vars == << context_memory, chat_log, icon, faq_file, sends, app_last >>

\* A call of one function of the scripts from outside them.
VARIABLES
    probe                   \* the function called last, its arguments and its result

\* The capacity of the rolling context window.
ContextCapacity == 10

NoTurn ==
    [user_input |-> <<>>, detected_lang |-> "", response |-> "", confidence |-> FZero,
     translated_input |-> <<>>, intent |-> "", called |-> {}, file |-> "",
     current_course |-> None]

\* str(uuid.uuid4())[:8]
SessionIds == {"1b9d6bcd"}

\* initialize_session(): the defaults of the session state.
initialize_session ==
    /\ history = <<>>
    /\ session_id \in SessionIds
    /\ course_pending = None
    /\ current_course = None
    /\ user_language = "en"
    /\ conversation_context = <<>>
    /\ processing = FALSE
    /\ last_processed = <<>>
    /\ chat_input = "unset"

\* No call of process_user_input has been made, and there is no log file.
InitTurns ==
    /\ logs = <<>>
    /\ pc = "idle"
    /\ call = <<>>
    /\ turns = 0
    /\ event = "start"
    /\ last = NoTurn
    /\ processed = <<>>

InitChat ==
    /\ initialize_session
    /\ kb_file \in KbFiles
    /\ InitTurns

\* The sidebar's language selector: st.session_state.user_language = selected_lang
SelectLanguage(lang) ==
    /\ program = "chatbot_app.py"
    /\ user_language # lang
    /\ user_language' = lang
    /\ UNCHANGED << app_vars, probe, program, budget, history, session_id, course_pending,
                    current_course, conversation_context, processing, last_processed,
                    chat_input, kb_file, logs, pc, call, turns, event, last, processed >>

\* A Clear Chat History that keeps the text of the last form submission.
ClearChatKeepsLast ==
    /\ program = "chatbot_app.py"
    /\ history' = <<>>
    /\ course_pending' = None
    /\ current_course' = None
    /\ conversation_context' = <<>>
    /\ processed' = <<>>
    /\ UNCHANGED << app_vars, probe, program, budget, session_id, user_language, processing,
                    last_processed,
                    chat_input, kb_file, logs, pc, call, turns, event, last >>

\* The sidebar's "Clear Chat History" button.
ClearChat ==
    /\ program = "chatbot_app.py"
    /\ history' = <<>>
    /\ course_pending' = None
    /\ current_course' = None
    /\ conversation_context' = <<>>
    /\ last_processed' = <<>>
    /\ processed' = <<>>
    /\ UNCHANGED << app_vars, probe, program, budget, session_id, user_language, processing,
                    chat_input, kb_file, logs, pc, call, turns, event, last >>

\* A test of line 758 that looks at the text alone.
DropsBlankOnly(user_input) == strip(user_input) = <<>>

\* The test of line 758: not user_input.strip() or st.session_state.processing
Drops(user_input) == strip(user_input) = <<>> \/ processing

\* process_user_input(user_input), lines 757-762: a call with a blank text
\* or with the guard set returns at once; any other call sets the guard and
\* goes on.  `event` records what the call did.
process_user_input(user_input) ==
    IF Drops(user_input)
    THEN /\ event' = (IF processing THEN "call:dropped" ELSE "call:blank")
         /\ UNCHANGED << processing, pc, call, turns >>
    ELSE /\ processing' = TRUE
         /\ pc' = "running"
         /\ call' = user_input
         /\ turns' = turns + 1
         /\ event' = "call:started"

\* A quick-question button: the call is made only with the guard clear.
QuickButton(i) ==
    /\ program = "chatbot_app.py"
    /\ turns < budget
    /\ IF ~processing
       THEN process_user_input(quick_options[i])
       ELSE UNCHANGED << processing, pc, call, turns, event >>
    /\ UNCHANGED << app_vars, probe, program, budget, history, session_id, course_pending,
                    current_course, user_language, conversation_context,
                    last_processed, chat_input, kb_file, logs, last, processed >>

\* The chat form's Send button with `user_input` in the text field.
FormSubmit(user_input) ==
    /\ program = "chatbot_app.py"
    /\ turns < budget
    /\ IF user_input # <<>> /\ user_input # last_processed /\ ~processing
       THEN /\ last_processed' = user_input
            /\ process_user_input(user_input)
       ELSE UNCHANGED << last_processed, processing, pc, call, turns, event >>
    /\ UNCHANGED << app_vars, probe, program, budget, history, session_id, course_pending,
                    current_course, user_language, conversation_context,
                    chat_input, kb_file, logs, last, processed >>

\* A call of process_user_input from any other call site.
Call(user_input) ==
    /\ program = "chatbot_app.py"
    /\ turns < budget
    /\ process_user_input(user_input)
    /\ UNCHANGED << app_vars, probe, program, budget, history, session_id, course_pending,
                    current_course, user_language, conversation_context,
                    last_processed, chat_input, kb_file, logs, last, processed >>

\* The entry appended, and no entry dropped.
PushContextUncut(context, entry) == Append(context, entry)

\* Lines 775-783: the entry appended, then the window cut to its last 10.
PushContext(context, entry) ==
    LET appended == Append(context, entry)
    IN  IF Len(appended) > ContextCapacity
        THEN SubSeq(appended, Len(appended) - ContextCapacity + 1, Len(appended))
        ELSE appended

\* A handler that leaves the guard set.
ExceptClauseKeepsGuard ==
    /\ history' = Append(history, <<"Bot", error_msg("en")>>)
    /\ processing' = processing
    /\ pc' = "idle"

\* The handler of line 797: the apology, and the guard cleared.
ExceptClause ==
    /\ history' = Append(history, <<"Bot", error_msg("en")>>)
    /\ processing' = FALSE
    /\ pc' = "idle"

\* The entries the log file keeps.
MaxLogs == 1000

\* What the reads and writes of log_interaction do: the file is written,
\* or one of them raises.
LogOutcomes == {"written", "error"}

\* A log_interaction without its except clause: an exception of the file
\* leaves it.
log_interaction_unguarded(entries, history_now, outcome) ==
    IF outcome = "error" THEN [entries |-> entries, raised |-> TRUE]
    ELSE [entries |-> Append(entries, Len(history_now) \div 2), raised |-> FALSE]

\* log_interaction(...): the entry of this turn, with conversation_turn
\* len(st.session_state.history) // 2, appended to the entries of the file
\* and the last 1000 written back; an exception leaves the file as it was
\* and is swallowed (line 275), so that none leaves the function.
log_interaction(entries, history_now, outcome) ==
    IF outcome = "error" THEN [entries |-> entries, raised |-> FALSE]
    ELSE IF Len(entries) + 1 > MaxLogs
    THEN [entries |-> SubSeq(Append(entries, Len(history_now) \div 2),
                             Len(entries) + 2 - MaxLogs, Len(entries) + 1),
          raised |-> FALSE]
    ELSE [entries |-> Append(entries, Len(history_now) \div 2), raised |-> FALSE]

\* process_user_input, lines 765-800: the language is detected (`detected`
\* is what langdetect does), the response generated, the turn recorded in
\* the history and the context window and logged (`logged` is what the
\* log file does), the guard cleared and the script rerun.  With `raised`,
\* the body raises an exception before it has a response, and the handler
\* of line 797 runs; it would run as well, after the turn is recorded, for
\* an exception that left log_interaction.
Finish(detected, raised, logged) ==
    /\ program = "chatbot_app.py"
    /\ pc = "running"
    /\ IF raised
       THEN /\ ExceptClause
            /\ event' = "turn:raised"
            /\ UNCHANGED << current_course, conversation_context, chat_input,
                            logs, last, processed >>
       ELSE \E r \in get_enhanced_response(call, safe_detect_language(call, detected),
                                            kb_file, current_course) :
              LET user_input == call
                  detected_lang == safe_detect_language(call, detected)
                  entry == [user_input |-> user_input, intent |-> r.intent,
                            confidence |-> r.confidence]
                  recorded == history \o << <<"You", user_input>>, <<"Bot", r.response>> >>
                  log == log_interaction(logs, recorded, logged)
              IN  /\ current_course' = r.current_course
                  /\ conversation_context' = PushContext(conversation_context, entry)
                  /\ processed' = Append(processed, entry)
                  /\ logs' = log.entries
                  /\ last' = [user_input |-> user_input, detected_lang |-> detected_lang,
                              response |-> r.response, confidence |-> r.confidence,
                              translated_input |-> r.translated_input,
                              intent |-> r.intent, called |-> r.called,
                              file |-> kb_file, current_course |-> current_course]
                  /\ processing' = FALSE
                  /\ pc' = "idle"
                  /\ IF log.raised
                     THEN /\ history' = Append(recorded, <<"Bot", error_msg("en")>>)
                          /\ event' = "turn:raised"
                          /\ UNCHANGED chat_input
                     ELSE /\ history' = recorded
                          /\ chat_input' = ""
                          /\ event' = "turn:done"
    /\ UNCHANGED << app_vars, probe, program, budget, session_id, course_pending, user_language,
                    last_processed, kb_file, call, turns >>

(***************************************************************************)
(* app.py: the desktop chatbot                                             *)
(***************************************************************************)

vars == << program, budget, chat_vars, app_vars, probe >>

\* The rows of a faq.csv: the second row has no answer.
FaqRows ==
    << [question |-> Chars("Shipping Policy"),
        answer |-> "Orders ship within 2 business days."],
       [question |-> Chars("warranty"), answer |-> ""] >>

\* The states of faq.csv: absent, or present with FaqRows.
FaqFiles == {"missing", "rows"}

\* check_faq(msg): the answer of the first row whose question, lower-cased,
\* is part of the message; None without such a row or without the file.
check_faq(msg, file) ==
    IF file = "missing" THEN None
    ELSE LET hits == {i \in 1..Len(FaqRows) : Contains(lower(FaqRows[i].question), lower(msg))}
         IN  IF hits = {} THEN None ELSE FaqRows[Min(hits)].answer

\* The keys of custom_keywords, in the order of the dictionary.
custom_keywords == << Chars("delivery"), Chars("return"), Chars("payment"), Chars("order") >>

\* What the weather service answers: the data of a city, an error object,
\* or nothing (the request fails).
WeatherReplies == {"data", "error", "down"}

\* A get_weather that answers a failed request with the text of its
\* exception.
get_weather_error_text(city, reply) ==
    IF reply = "error"
    THEN [info |-> ":x: U+57CE U+5E02 U+627E U+4E0D U+5230 U+6216 API U+9519 U+8BEF", icon_url |-> None]
    ELSE IF reply = "down"
    THEN [info |-> "HTTPConnectionPool(host='api.weatherapi.com', port=80): Max retries exceeded",
          icon_url |-> None]
    ELSE [info |-> ":sun: " \o Str(city) \o " U+5F53 U+524D 21.0C, Sunny",
          icon_url |-> "https://cdn.weatherapi.com/weather/64x64/day/113.png"]

\* get_weather(city): the weather line and the URL of the icon.
get_weather(city, reply) ==
    IF reply = "error"
    THEN [info |-> ":x: U+57CE U+5E02 U+627E U+4E0D U+5230 U+6216 API U+9519 U+8BEF", icon_url |-> None]
    ELSE IF reply = "down"
    THEN [info |-> ":x: U+83B7 U+53D6 U+5929 U+6C14 U+5931 U+8D25", icon_url |-> None]
    ELSE [info |-> ":sun: " \o Str(city) \o " U+5F53 U+524D 21.0C, Sunny",
          icon_url |-> "https://cdn.weatherapi.com/weather/64x64/day/113.png"]

\* msg.split(maxsplit=1): the first word, and the rest of the text from its
\* first character that is not whitespace, when there is one.
RECURSIVE FirstWord(_)
FirstWord(text) ==
    IF text = <<>> \/ Head(text) \in Whitespace THEN <<>>
    ELSE <<Head(text)>> \o FirstWord(Tail(text))

split_maxsplit_1(text) ==
    LET t     == lstrip(text)
        first == FirstWord(t)
        rest  == lstrip(SubSeq(t, Len(first) + 1, Len(t)))
    IN  IF first = <<>> THEN <<>>
        ELSE IF rest = <<>> THEN <<first>>
        ELSE <<first, rest>>

\* The tags of the trained model and the responses of each in intents.json;
\* the intent of the tag "thanks" has been taken out of intents.json since
\* the model was trained.
tags == <<"goodbye", "greeting", "thanks">>

intents ==
    << [tag |-> "greeting", responses |-> <<"Hello!", "Hi there, how can I help?">>],
       [tag |-> "goodbye", responses |-> <<"Goodbye!">>] >>

\* The probabilities the model gives its predicted tag.
F0_5 == FDiv(1, 2)

F0_76 == FDiv(76, 100)

Probs == {F0_5, F0_75, F0_76, F1_0}

\* What the model answers for a message: the predicted tag and its
\* probability.
ModelOutputs == {[predicted |-> i, prob |-> p] : i \in 1..Len(tags), p \in Probs}

\* A threshold test that accepts the threshold itself.
ConfidentInclusive(prob) == ~FLess(prob, F0_75)

\* The classifier's threshold test.
Confident(prob) == FGreater(prob, F0_75)

\* The fallback of line 130.
app_fallback == ":thinking: U+62B1 U+6B49 U+FF0C U+6211 U+4E0D U+592A U+7406 U+89E3 U+4F60 U+7684 U+610F U+601D ..."

\* Lines 125-130 for one output of the model: a response of the predicted
\* tag's intent (random.choice draws any of them) when the probability is
\* above 0.75; else the fallback.
classifier_stage(output) ==
    LET tag  == tags[output.predicted]
        hits == {i \in 1..Len(intents) : intents[i].tag = tag}
    IN  IF Confident(output.prob) /\ hits # {}
        THEN LET responses == intents[Min(hits)].responses
             IN  {[response |-> responses[i], stage |-> "classifier", output |-> output] :
                    i \in 1..Len(responses)}
        ELSE {[response |-> app_fallback, stage |-> "fallback", output |-> output]}

\* strftime("%Y-%m-%d %H:%M:%S") of the clock (its seconds are 00).
strftime(now) ==
    ToString(now.year) \o "-" \o Pad2(now.month) \o "-" \o Pad2(now.day) \o " "
    \o Pad2(now.hour) \o ":" \o Pad2(now.minute) \o ":00"

NoOutput == [predicted |-> 0, prob |-> FZero]

\* get_response(msg): the response, the stage that produced it, the
\* functions called on the way, the icon shown and the output of the model
\* where it was run.  `file` is the state of faq.csv.  The results it can
\* have: one for each thing the weather service, the clock, the model and
\* random.choice can do where they are used.
get_response(msg_in, file) ==
    LET msg == lower(msg_in)
    IN  IF StartsWith(msg, Chars("/weather"))
        THEN LET parts == split_maxsplit_1(msg)
             IN  IF Len(parts) < 2
                 THEN {[response |-> ":exclamation: U+683C U+5F0F U+9519 U+8BEF /weather <city>",
                        stage |-> "command", called |-> {}, icon_url |-> None,
                        output |-> NoOutput]}
                 ELSE {[response |-> get_weather(parts[2], reply).info, stage |-> "command",
                        called |-> {"get_weather"},
                        icon_url |-> get_weather(parts[2], reply).icon_url,
                        output |-> NoOutput] : reply \in WeatherReplies}
        ELSE IF Contains(Chars("time"), msg) \/ Contains(Chars("date"), msg)
        THEN {[response |-> ":clock3: U+73B0 U+5728 U+662F " \o strftime(now),
               stage |-> "temporal", called |-> {}, icon_url |-> None,
               output |-> NoOutput] : now \in Clock}
        ELSE LET faq_answer == check_faq(msg, file)
                 keys == {i \in 1..Len(custom_keywords) : Contains(custom_keywords[i], msg)}
             IN  IF faq_answer # None /\ faq_answer # ""
                 THEN {[response |-> ":books: " \o faq_answer, stage |-> "faq",
                        called |-> {"check_faq"}, icon_url |-> None, output |-> NoOutput]}
                 ELSE IF keys # {}
                 THEN {[response |-> ":mag: U+4F60 U+5728 U+95EE U+5173 U+4E8E "
                                     \o Str(custom_keywords[Min(keys)]),
                        stage |-> "keyword", called |-> {"check_faq"}, icon_url |-> None,
                        output |-> NoOutput]}
                 ELSE UNION { {[response |-> c.response, stage |-> c.stage,
                                called |-> {"check_faq", "tokenize", "bag_of_words", "model"},
                                icon_url |-> None, output |-> c.output] :
                                  c \in classifier_stage(output)} :
                              output \in ModelOutputs }

\* The messages typed into the entry of the window.
AppTexts ==
    { <<>>, Chars("/weather"), Chars("/weather Paris"), Chars("/weatherparis"),
      Chars("What time is it"), Chars("update my order"), Chars("shipping policy"),
      Chars("return shipping policy"), Chars("my order payment"), Chars("warranty"),
      Chars("hello"), Chars("xyzzy plugh") }

MaxSends == 2

NoResponse ==
    [msg |-> <<>>, response |-> "", stage |-> "", called |-> {}, output |-> NoOutput,
     file |-> ""]

InitApp ==
    /\ context_memory = << >>
    /\ chat_log = << >>
    /\ icon = ""
    /\ faq_file \in FaqFiles
    /\ sends = 0
    /\ app_last = NoResponse

\* send(): nothing for an empty entry; else the message and the response
\* of get_response(user_input) are written to chat_log.  get_response
\* stores the message in context_memory["user"]; show_weather_icon sets the
\* icon when the weather has one.
send(user_input) ==
    /\ program = "app.py"
    /\ sends < MaxSends
    /\ sends' = sends + 1
    /\ IF user_input = <<>>
       THEN UNCHANGED << context_memory, chat_log, icon, app_last >>
       ELSE \E r \in get_response(user_input, faq_file) :
                /\ context_memory' = [u \in {"user"} |-> user_input]
                /\ chat_log' = chat_log \o << <<"You", user_input>>, <<"Bot", r.response>> >>
                /\ icon' = IF r.icon_url # None THEN r.icon_url ELSE icon
                /\ app_last' = [msg |-> user_input, response |-> r.response,
                                stage |-> r.stage, called |-> r.called,
                                output |-> r.output, file |-> faq_file]
    /\ UNCHANGED << program, budget, chat_vars, faq_file, probe >>

(***************************************************************************)
(* The functions of chatbot_app.py, called on their own                    *)
(***************************************************************************)

NoProbe == [function |-> "", text |-> <<>>, arg |-> "", outcome |-> "", result |-> ""]

\* The texts safe_translate is called with.
TranslateTexts ==
    { "", "Hello", handle_greeting("en"), fallback_responses("en"),
      "No relevant information found." }

\* The target languages safe_translate is called with.
TargetLanguages == {"en", "zh-cn", "fr"}

\* safe_translate(text, target_lang) is called; `outcome` is what the
\* translation service does when it is called.
Translate(text, target_lang, outcome) ==
    /\ probe.function = ""
    /\ probe' = [function |-> "safe_translate", text |-> text, arg |-> target_lang,
                 outcome |-> outcome,
                 result |-> safe_translate(text, target_lang, "auto", outcome)]
    /\ UNCHANGED << program, budget, chat_vars, app_vars >>

\* The texts safe_detect_language is called with: with and without
\* characters of U+4E00..U+9FFF, and with the characters next to the range.
DetectTexts ==
    { <<>>, Chars("hello"), Chars("bonjour"),
      <<"U+56FD", "U+9645", "U+5B66", "U+8D39">>,
      <<"U+4E00">>, <<"a", " ", "U+9FFF">>, <<"h", "i", "U+4E2D">>,
      <<"U+4DFF">>, <<"U+A000">>, <<"U+3042", "U+308A">>, <<"U+D55C", "U+AE00">> }

\* safe_detect_language(text) is called; `detected` is what langdetect
\* does when it is called.
Detect(text, detected) ==
    /\ probe.function = ""
    /\ probe' = [function |-> "safe_detect_language", text |-> text, arg |-> "",
                 outcome |-> detected, result |-> safe_detect_language(text, detected)]
    /\ UNCHANGED << program, budget, chat_vars, app_vars >>

\* The texts fuzzy_match_kb is called with.
MatchTexts ==
    { Chars("campus facilities"), Chars("campus x y z ff"), Chars("xyzzy plugh"),
      Chars("parking permit"), Chars("Parking Permit"), Chars("bus"), Chars("student housing on campus"),
      Chars("office hours"), Chars("exam office hours schedule"), Chars("permit") }

\* fuzzy_match_kb(user_input, load_knowledge_base()) is called with the
\* data file in the state `file`.
Match(user_input, file) ==
    /\ probe.function = ""
    /\ probe' = [function |-> "fuzzy_match_kb", text |-> user_input, arg |-> file,
                 outcome |-> "",
                 result |-> fuzzy_match_kb(user_input, load_knowledge_base(file))]
    /\ UNCHANGED << program, budget, chat_vars, app_vars >>

(***************************************************************************)
(* nltk_utils.py                                                           *)
(***************************************************************************)

\* str.endswith
EndsWith(word, suffix) ==
    /\ Len(word) >= Len(suffix)
    /\ SubSeq(word, Len(word) - Len(suffix) + 1, Len(word)) = suffix

\* stem(word): stemmer.stem(word.lower()).  PorterStemmer returns a word of
\* one or two letters as it is, and its step 1a takes the plural endings
\* off: "ies" to "ie" in a word of four letters, "sses" to "ss", "ies" to
\* "i", "ss" kept, "s" dropped.  On the words of Words the later steps of
\* the stemmer change nothing.
stem(word) ==
    LET w == lower(word)
        cut(n, suffix) == SubSeq(w, 1, Len(w) - n) \o suffix
    IN  IF Len(w) <= 2 THEN w
        ELSE IF EndsWith(w, <<"i", "e", "s">>) /\ Len(w) = 4 THEN cut(3, <<"i", "e">>)
        ELSE IF EndsWith(w, <<"s", "s", "e", "s">>) THEN cut(4, <<"s", "s">>)
        ELSE IF EndsWith(w, <<"i", "e", "s">>) THEN cut(3, <<"i">>)
        ELSE IF EndsWith(w, <<"s", "s">>) THEN w
        ELSE IF EndsWith(w, <<"s">>) THEN cut(1, <<>>)
        ELSE w

\* The stems of the tokens: [stem(w) for w in tokenized_sentence] as a set.
Stems(tokenized_sentence) ==
    {stem(tokenized_sentence[i]) : i \in 1..Len(tokenized_sentence)}

\* A bag_of_words that counts the tokens of each word of the vocabulary.
bag_of_words_counting(tokenized_sentence, all_words) ==
    [idx \in 1..Len(all_words) |->
        Cardinality({i \in 1..Len(tokenized_sentence) :
                        stem(tokenized_sentence[i]) = all_words[idx]})]

\* bag_of_words(tokenized_sentence, all_words): a list of len(all_words)
\* entries, 1 where the word of the vocabulary is among the stemmed tokens
\* and 0 elsewhere.
bag_of_words(tokenized_sentence, all_words) ==
    [idx \in 1..Len(all_words) |->
        IF all_words[idx] \in Stems(tokenized_sentence) THEN 1 ELSE 0]

\* The longest token sequence bag_of_words is called with.
MaxTokens == 3

\* The words of the token sequences: with capitals and plurals among them,
\* and two words of one stem.
Words ==
    { Chars("Hello"), Chars("hello"), Chars("thanks"), Chars("classes") }

\* The token sequences bag_of_words is called with.
TokenSequences == UNION {[1..n -> Words] : n \in 0..MaxTokens}

\* The vocabularies: the sorted stems that train.py builds, an empty one,
\* and one with a repeated word and a word that is no stem.
Vocabularies ==
    { << Chars("class"), Chars("hello"), Chars("thank") >>,
      << >>,
      << Chars("thank"), Chars("thanks"), Chars("Hello"), Chars("thank") >> }

\* bag_of_words(tokenized_sentence, all_words) is called.
Vectorize(tokenized_sentence, all_words) ==
    /\ probe.function = ""
    /\ probe' = [function |-> "bag_of_words", text |-> tokenized_sentence,
                 arg |-> all_words, outcome |-> "",
                 result |-> bag_of_words(tokenized_sentence, all_words)]
    /\ UNCHANGED << program, budget, chat_vars, app_vars >>

\* The texts the input translation is called with: validated inputs in
\* Chinese, in French and in English.
InputTexts ==
    { <<"U+56FD", "U+9645", "U+5B66", "U+8D39">>, <<"U+5B66", "U+8D39">>,
      Chars("bonjour"), Chars("frais de scolarite"), Chars("hello") }

\* Lines 299-301 of get_enhanced_response run for a validated input and a
\* detected language.
TranslateInput(user_input, detected_lang, outcome) ==
    /\ probe.function = ""
    /\ probe' = [function |-> "translated_input", text |-> user_input,
                 arg |-> detected_lang, outcome |-> outcome,
                 result |-> TranslatedInput(user_input, detected_lang, outcome)]
    /\ UNCHANGED << program, budget, chat_vars, app_vars >>

(***************************************************************************)
(* The specifications                                                      *)
(***************************************************************************)

Languages == {"en", "zh-cn"}

\* Either script is started; a chat session of MaxTurns turns.
Init ==
    /\ program \in {"chatbot_app.py", "app.py"}
    /\ budget = MaxTurns
    /\ InitChat
    /\ InitApp
    /\ probe = NoProbe

Next ==
    \/ \E lang \in Languages : SelectLanguage(lang)
    \/ ClearChat
    \/ \E i \in 1..Len(quick_options) : QuickButton(i)
    \/ \E t \in TypedTexts : FormSubmit(t)
    \/ \E t \in CallTexts : Call(t)
    \/ \E detected \in DetectorOutcomes, raised \in BOOLEAN :
            Finish(detected, raised, "written")
    \/ \E t \in AppTexts : send(t)

Spec == Init /\ [][Next]_vars

\* A long chat session in English: WindowTurns turns, none of which raises.
InitWindow ==
    /\ program = "chatbot_app.py"
    /\ budget = WindowTurns
    /\ InitChat
    /\ InitApp
    /\ kb_file = "missing"
    /\ faq_file = "missing"
    /\ probe = NoProbe

NextWindow ==
    \/ ClearChat
    \/ \E t \in WindowTexts : Call(t)
    \/ Finish("en", FALSE, "written")

SpecWindow == InitWindow /\ [][NextWindow]_vars

\* A chat session in English about courses and fees, with the built-in
\* knowledge base.
InitTopic ==
    /\ program = "chatbot_app.py"
    /\ budget = TopicTurns
    /\ initialize_session
    /\ kb_file = "missing"
    /\ InitTurns
    /\ InitApp
    /\ probe = NoProbe

NextTopic ==
    \/ ClearChat
    \/ \E t \in TopicTexts : FormSubmit(t)
    \/ Finish("en", FALSE, "written")

SpecTopic == InitTopic /\ [][NextTopic]_vars

\* A chat session in which things fail: the data file may have a row with
\* an empty question cell, the language detector and the log file may
\* raise, and so may the body of process_user_input.
InitFaults ==
    /\ program = "chatbot_app.py"
    /\ budget = MaxTurns
    /\ initialize_session
    /\ kb_file \in GapFiles \cup {"missing"}
    /\ InitTurns
    /\ InitApp
    /\ probe = NoProbe

NextFaults ==
    \/ ClearChat
    \/ \E t \in FaultTexts : FormSubmit(t)
    \/ \E detected \in {"en", "error"}, raised \in BOOLEAN, logged \in LogOutcomes :
            Finish(detected, raised, logged)

SpecFaults == InitFaults /\ [][NextFaults]_vars

\* The desktop chatbot app.py on its own.
InitDesktop ==
    /\ program = "app.py"
    /\ budget = 0
    /\ initialize_session
    /\ kb_file = "missing"
    /\ InitTurns
    /\ InitApp
    /\ probe = NoProbe

NextDesktop == \E t \in AppTexts : send(t)

SpecDesktop == InitDesktop /\ [][NextDesktop]_vars

\* The functions of chatbot_app.py and nltk_utils.py called on their own,
\* one call in each behaviour, no chat session running and no data files
\* (a call that reads a file is given the state of the file).
InitFunctions ==
    /\ program = "chatbot_app.py"
    /\ budget = 0
    /\ initialize_session
    /\ kb_file = "missing"
    /\ InitTurns
    /\ InitApp
    /\ faq_file = "missing"
    /\ probe = NoProbe

NextFunctions ==
    \/ \E text \in TranslateTexts, target_lang \in TargetLanguages,
          outcome \in TranslatorOutcomes : Translate(text, target_lang, outcome)
    \/ \E text \in DetectTexts, detected \in DetectorOutcomes : Detect(text, detected)
    \/ \E user_input \in MatchTexts, file \in KbFiles : Match(user_input, file)
    \/ \E user_input \in InputTexts, detected_lang \in {"en", "zh-cn", "fr"},
          outcome \in TranslatorOutcomes : TranslateInput(user_input, detected_lang, outcome)
    \/ \E tokenized_sentence \in TokenSequences, all_words \in Vocabularies :
          Vectorize(tokenized_sentence, all_words)

SpecFunctions == InitFunctions /\ [][NextFunctions]_vars

(***************************************************************************)
(* The properties                                                          *)
(***************************************************************************)

\* C1 -- In-flight guard drop: a call of process_user_input made while
\* st.session_state.processing is True appends nothing to the history,
\* pushes nothing to the context window, leaves current_course alone and is
\* not kept for later: the running call and its input stay what they were.
C1_GuardDrop ==
    [][ \A t \in CallTexts :
          (processing /\ Call(t)) =>
              UNCHANGED << history, conversation_context, current_course,
                           processing, pc, call, turns, last_processed >> ]_vars

\* A call has been dropped while another one was running.
C1_Witness == pc = "running" /\ processing /\ event = "call:dropped"

\* C2 -- Guard release: whenever no call of process_user_input is in
\* flight, the guard is clear, after a turn that succeeded and after one
\* that raised alike.
C2_GuardReleased == pc = "idle" => ~processing

\* A turn has raised, its call is over and the guard is clear.
C2_Witness == pc = "idle" /\ event = "turn:raised" /\ ~processing /\ turns > 0

\* C3 -- Context window bound: after N processed turns the context window
\* has min(N, 10) entries, and they are the entries of the most recent
\* turns in their order.
C3_ContextWindow ==
    LET n == Len(processed)
        k == IF n < 10 THEN n ELSE 10
    IN  /\ Len(conversation_context) = k
        /\ conversation_context = SubSeq(processed, n - k + 1, n)

\* Eleven turns have been processed and the oldest has left the window.
C3_Witness ==
    /\ Len(processed) = 11
    /\ Len(conversation_context) = 10
    /\ conversation_context[1] = processed[2]
    /\ processed[1] # processed[2]

\* The stage the claimed order gives a message: the explicit command, the
\* temporal keywords, the topic keywords, the FAQ lookup, the classifier,
\* the fallback.
ClaimedStage(msg_in, file, output) ==
    LET msg == lower(msg_in)
    IN  IF StartsWith(msg, Chars("/weather")) THEN "command"
        ELSE IF Contains(Chars("time"), msg) \/ Contains(Chars("date"), msg) THEN "temporal"
        ELSE IF \E i \in 1..Len(custom_keywords) : Contains(custom_keywords[i], msg)
        THEN "keyword"
        ELSE IF check_faq(msg, file) \notin {None, ""} THEN "faq"
        ELSE IF Confident(output.prob) THEN "classifier"
        ELSE "fallback"

\* C4 -- Stage priority in get_response (app.py): the response comes from
\* the first stage that matches the message in the order explicit command,
\* temporal keywords, topic keywords, FAQ lookup, classifier, fallback.
C4_StagePriority ==
    app_last.msg # <<>> =>
        app_last.stage = ClaimedStage(app_last.msg, app_last.file, app_last.output)

\* The text of the last turn as validate_input returns it.
LastInput == validate_input(last.user_input).value

\* The last turn went through the stages of get_enhanced_response.
LastAnswered == last.intent \notin {"", "error"}

\* The keyword sets of classify_intent_multilingual that occur in the
\* lower-cased input.
MatchedPatterns(user_input, detected_lang) ==
    LET user_input_lower == lower(user_input)
    IN  (IF ContainsAny(GREETING_PATTERNS(detected_lang), user_input_lower)
            \/ ContainsAny(GREETING_PATTERNS("en"), user_input_lower)
         THEN {"greeting"} ELSE {})
        \cup (IF ContainsAny(course_keywords, user_input_lower)
              THEN {"course_inquiry"} ELSE {})
        \cup (IF ContainsAny(fee_keywords, user_input_lower) THEN {"fees"} ELSE {})
        \cup (IF ContainsAny(time_keywords, user_input_lower) THEN {"time"} ELSE {})

\* MatchedPatterns for every input text of the model that passes
\* validation and either language, computed once.
PatternTable ==
    { <<validate_input(t).value, lang, MatchedPatterns(validate_input(t).value, lang)>> :
        t \in {x \in AllTexts : ~validate_input(x).raised}, lang \in Languages }

\* The keyword sets that occur in the text of the last turn.
LastPatterns ==
    (CHOOSE x \in PatternTable : x[1] = LastInput /\ x[2] = last.detected_lang)[3]

\* The responses the time handler can give in a language, translated or not.
Timestamps(lang) ==
    UNION { IF lang # "en"
            THEN translations(handle_time_query(lang, now), lang, "auto")
            ELSE {handle_time_query(lang, now)} : now \in Clock }

\* C5 -- Order inside the deterministic-intent stage, as the code has it:
\* greeting patterns first, then course keywords, then fee keywords, then
\* time keywords.  An input with a time keyword is a temporal query, and
\* answered with a timestamp at confidence 1.0, exactly when it has no
\* greeting, course or fee keyword.
C5_TimeAfterGreetingAndTopic ==
    LastAnswered =>
        /\ last.intent = "time" <=> LastPatterns = {"time"}
        /\ "greeting" \in LastPatterns => last.intent = "greeting"
        /\ last.intent = "time" =>
              /\ last.confidence = F1_0
              /\ last.response \in Timestamps(last.detected_lang)

\* An input whose only keyword is a time keyword has been answered with a
\* timestamp.
C5_Witness ==
    /\ last.user_input = Chars("what time is it")
    /\ last.intent = "time"
    /\ last.confidence = F1_0
    /\ last.response = handle_time_query("en", CHOOSE now \in Clock : now.hour = 9)

\* C5 as the spec has it: temporal keywords are checked first, so an input
\* with a time keyword is a temporal query whatever else it contains.
C5_TimeFirst ==
    (LastAnswered /\ "time" \in LastPatterns) =>
        /\ last.intent = "time"
        /\ last.confidence = F1_0
        /\ last.response \in Timestamps(last.detected_lang)

\* The knowledge base the last turn was answered from.
LastKb == load_knowledge_base(last.file)

\* C6 -- Exact knowledge-base match, for the built-in default set and an
\* input detected as English: an input equal to a question of the
\* knowledge base is answered with the paired answer, at a confidence of
\* 0.3 or more.
C6_ExactMatch ==
    (LastAnswered /\ last.file = "missing" /\ last.detected_lang = "en") =>
        \A i \in 1..Len(sample_data) :
            last.user_input = sample_data[i].question =>
                /\ last.response = sample_data[i].answer
                /\ ~FLess(last.confidence, F0_3)

\* C7 -- Deterministic match short-circuits: when the input matches a
\* greeting, course, fee or time pattern, get_enhanced_response does not
\* call fuzzy_match_kb; when the message has a time/date or topic keyword,
\* get_response does not run the classifier model.
C7_ShortCircuit ==
    /\ (LastAnswered /\ LastPatterns # {}) => "fuzzy_match_kb" \notin last.called
    /\ (app_last.msg # <<>>
        /\ ClaimedStage(app_last.msg, app_last.file, app_last.output)
              \in {"temporal", "keyword"})
         => "model" \notin app_last.called

\* "hello" has been answered by the greeting handler, at confidence 1.0,
\* without a look at the knowledge base.
C7_Witness ==
    /\ last.user_input = Chars("hello")
    /\ last.intent = "greeting"
    /\ last.confidence = F1_0
    /\ "fuzzy_match_kb" \notin last.called
    /\ "handle_greeting" \in last.called


\* What the spec calls an invalid input: no text, more than 500
\* characters, or an unsafe character.
Invalid(text) ==
    \/ strip(text) = <<>>
    \/ Len(text) > MaxInputLen
    \/ \E i \in 1..Len(text) : text[i] \in Unsafe

\* C8 -- Input validation failure leaves the session untouched: when a call
\* of process_user_input with an invalid text returns, history,
\* conversation_context and current_course are what they were.
C8_InvalidInputUntouched ==
    [][ (pc = "running" /\ event' = "turn:done" /\ Invalid(call)) =>
            UNCHANGED << history, conversation_context, current_course >> ]_vars

\* The question of the knowledge base with the highest combined score for
\* an input, the earliest of them when several have it, and that score.
BestOf(user_input, knowledge_base) ==
    IF knowledge_base = <<>> THEN [idx |-> 0, score |-> FZero]
    ELSE LET scored == {<<idx, combined_score(user_input, knowledge_base[idx].question)>> :
                           idx \in 1..Len(knowledge_base)}
             best == CHOOSE x \in scored : \A y \in scored :
                         /\ ~FGreater(y[2], x[2])
                         /\ (y[1] < x[1] => FLess(y[2], x[2]))
         IN  [idx |-> best[1], score |-> best[2]]

\* BestOf for every input text of the model that passes validation and
\* every state of the data file, computed once.
BestTable ==
    { <<file, validate_input(t).value,
        BestOf(validate_input(t).value, load_knowledge_base(file))>> :
        file \in KbFiles, t \in {x \in AllTexts : ~validate_input(x).raised} }

\* The best question for the text of the last turn.
LastBest == (CHOOSE x \in BestTable : x[1] = last.file /\ x[2] = LastInput)[3]

\* The last turn reached the knowledge-base stage with an input detected as
\* English.
LastGeneral == LastAnswered /\ last.intent = "general" /\ last.detected_lang = "en"

\* C9 -- Fuzzy threshold boundary is inclusive: when the best combined
\* score of the knowledge base is exactly 0.3, the entry is accepted and
\* its answer returned; when it is below 0.3, the fallback is returned.
C9_InclusiveThreshold ==
    LastGeneral =>
        /\ LastBest.score = F0_3 =>
              /\ last.response = LastKb[LastBest.idx].answer
              /\ last.confidence = F0_3
        /\ FLess(LastBest.score, F0_3) =>
              /\ last.response = fallback_responses("en")
              /\ last.confidence = FZero

\* C10 -- Fallback guarantee: an input that passes validation, matches no
\* greeting, course, fee or time pattern and has no knowledge-base entry
\* scoring above 0.3 is answered with the fallback response of the detected
\* language, at confidence 0; a message that reaches the classifier of
\* get_response and gets a probability of 0.75 or less is answered with
\* the fallback of app.py.
C10_Fallback ==
    /\ (LastAnswered /\ LastPatterns = {} /\ ~FGreater(LastBest.score, F0_3)) =>
          /\ last.response = fallback_responses(last.detected_lang)
          /\ last.confidence = FZero
    /\ ("model" \in app_last.called /\ ~FGreater(app_last.output.prob, F0_75)) =>
          app_last.response = app_fallback

\* "xyzzy plugh" has gone through the stages and got the fallback at
\* confidence 0.
C10_Witness ==
    /\ last.user_input = Chars("xyzzy plugh")
    /\ last.file = "missing"
    /\ last.detected_lang = "en"
    /\ last.intent = "general"
    /\ "fuzzy_match_kb" \in last.called
    /\ FLess(LastBest.score, F0_3)
    /\ last.response = fallback_responses("en")
    /\ last.confidence = FZero

\* Whether a stage of get_enhanced_response raises for this input:
\* validate_input, or the fuzzy match over a data file with an empty
\* question cell.
StageRaises(user_input, detected_lang, file) ==
    \/ validate_input(user_input).raised
    \/ /\ file \in GapFiles
       /\ classify_intent_multilingual(validate_input(user_input).value, detected_lang)
            = "general"

\* C11 -- Internal pipeline exception: a turn always ends with the guard
\* False; when the body of process_user_input raises, the apology is
\* appended to the history; when a stage of get_enhanced_response raises,
\* the turn is recorded with the apology, confidence 0 and intent "error".
C11_FailureCaught ==
    [][(pc = "running" /\ pc' = "idle") =>
          /\ ~processing'
          /\ event' \in {"turn:raised", "turn:done"}
          /\ event' = "turn:raised" =>
                history' = Append(history, <<"Bot", error_msg("en")>>)
          /\ (event' = "turn:done"
                /\ StageRaises(call, last'.detected_lang, kb_file)) =>
                /\ last'.intent = "error"
                /\ last'.confidence = FZero
                /\ last'.response = error_msg(last'.detected_lang)
                /\ history' = history \o << <<"You", call>>,
                                             <<"Bot", error_msg(last'.detected_lang)>> >>
                /\ conversation_context'[Len(conversation_context')].confidence = FZero
      ]_vars

\* A turn in which the fuzzy match raised has ended.
C11_Witness ==
    /\ event = "turn:done"
    /\ pc = "idle"
    /\ last.file \in GapFiles
    /\ ~validate_input(last.user_input).raised
    /\ "fuzzy_match_kb" \in last.called
    /\ last.intent = "error"
    /\ ~processing

\* Whether the string `needle` is part of the string `text`.
StrContains(needle, text) ==
    \E i \in 1..(Len(text) - Len(needle) + 1) : SubSeq(text, i, i + Len(needle) - 1) = needle

\* The course a context entry names: the first course of COURSES with a
\* keyword in the text of a course inquiry, None for any other entry.
NamedCourse(entry) ==
    LET text  == lower(validate_input(entry.user_input).value)
        found == {i \in 1..Len(COURSES) : ContainsAny(COURSES[i].keywords, text)}
    IN  IF entry.intent = "course_inquiry" /\ found # {}
        THEN COURSES[Min(found)].name
        ELSE None

\* The course named most recently in the turns since the last clear.
RECURSIVE TopicOf(_)
TopicOf(entries) ==
    IF entries = <<>> THEN None
    ELSE IF NamedCourse(entries[Len(entries)]) # None
    THEN NamedCourse(entries[Len(entries)])
    ELSE TopicOf(SubSeq(entries, 1, Len(entries) - 1))

\* The last turn was a fee question in English, asked after a course was
\* named.
FeeFollowUp ==
    /\ event = "turn:done"
    /\ processed # <<>>
    /\ last.intent = "fees"
    /\ last.detected_lang = "en"
    /\ TopicOf(processed) # None

\* Whether the text states the type of student.
StatesStudentType(text) ==
    \/ Contains(Chars("international"), lower(text))
    \/ Contains(Chars("domestic"), lower(text))
    \/ Contains(Chars("local"), lower(text))

\* C12 (as amended) -- Topic memory: after a course inquiry named course C,
\* a later fee question that states the type of student (international,
\* domestic or local) is answered with that type's fee for C, the course
\* named most recently; a fee question that states no type of student is
\* answered with the fee table, which names no course.
C12_TopicFeeForStudentType ==
    FeeFollowUp =>
        IF StatesStudentType(last.translated_input)
        THEN /\ StrContains("The tuition fees for **" \o title(TopicOf(processed)) \o "** are",
                            last.response)
             /\ last.current_course = TopicOf(processed)
        ELSE /\ StrContains("**Tuition Fees:**", last.response)
             /\ \A i \in 1..Len(COURSES) : ~StrContains(title(COURSES[i].name), last.response)

\* A fee question with the type of student, asked after two courses were
\* named, has been answered.
C12_Witness ==
    /\ FeeFollowUp
    /\ StatesStudentType(last.translated_input)
    /\ Len(processed) = 3
    /\ NamedCourse(processed[1]) = "nursing"
    /\ NamedCourse(processed[2]) = "computer science"
    /\ StrContains("Computer Science", last.response)

\* C12 -- Topic memory disambiguates fee follow-ups: after a course inquiry
\* named course C, a later fee question that names no course is answered
\* with the fee for C: the response names the course named most recently.
C12_TopicFee ==
    FeeFollowUp => StrContains(title(TopicOf(processed)), last.response)

\* The raw text of the turn processed most recently since the last clear,
\* the empty string when there is none.
MostRecentInput ==
    IF processed = <<>> THEN <<>> ELSE processed[Len(processed)].user_input

\* C13 -- Duplicate-submission suppression: after any sequence of form
\* submissions, quick-question buttons and clears, last_processed holds the
\* raw text of the turn processed most recently, so that a form submission
\* is suppressed exactly when its text is that text.
C13_LastProcessedIsMostRecent ==
    (pc = "idle" /\ event = "turn:done") => last_processed = MostRecentInput

\* The last turn ran with a data file that could not be loaded, on a
\* valid input that is no greeting and has no course, fee or time keyword.
LoadFailedTurn ==
    /\ event = "turn:done"
    /\ last.file = "unreadable"
    /\ ~validate_input(last.user_input).raised
    /\ classify_intent_multilingual(validate_input(last.user_input).value,
                                    last.detected_lang) = "general"

\* C14 -- Knowledge-base load failure never fails the turn: a load that
\* fails gives an empty knowledge base, and with it every input that
\* matches no deterministic intent is answered with the fallback response
\* at confidence 0, the turn being recorded as any other.
C14_LoadFailureFallback ==
    /\ load_knowledge_base("unreadable") = <<>>
    /\ LoadFailedTurn =>
          /\ last.intent = "general"
          /\ "fuzzy_match_kb" \in last.called
          /\ last.response = fallback_responses(last.detected_lang)
          /\ last.confidence = FZero
          /\ pc = "idle" => ~processing

\* A question the sample data answers has been asked with a data file that
\* could not be loaded.
C14_Witness ==
    /\ LoadFailedTurn
    /\ last.user_input = Chars("campus facilities")
    /\ last.response = fallback_responses("en")
    /\ history # <<>>

\* C15 -- Persistence is fire-and-forget: a turn in which log_interaction
\* fails ends as a turn that logged: the user text and the response are
\* appended to the history and nothing else, the context entry is pushed,
\* the guard and the input box are cleared, and the log file is as it was.
C15_LogFailureSwallowed ==
    [][\A detected \in DetectorOutcomes :
          Finish(detected, FALSE, "error") =>
             /\ event' = "turn:done"
             /\ logs' = logs
             /\ ~processing'
             /\ pc' = "idle"
             /\ chat_input' = ""
             /\ Len(history') = Len(history) + 2
             /\ \E r \in get_enhanced_response(call, safe_detect_language(call, detected),
                                                kb_file, current_course) :
                   /\ history' = history \o << <<"You", call>>, <<"Bot", r.response>> >>
                   /\ conversation_context' =
                         PushContext(conversation_context,
                                     [user_input |-> call, intent |-> r.intent,
                                      confidence |-> r.confidence])
                   /\ current_course' = r.current_course
      ]_vars

\* Two turns have ended, and only the first of them is in the log file.
C15_Witness ==
    /\ event = "turn:done"
    /\ pc = "idle"
    /\ ~processing
    /\ Len(history) = 4
    /\ Len(conversation_context) = 2
    /\ logs = <<1>>

\* C16 -- Translation boundary: when the translation service raises or
\* returns nothing, safe_translate returns the text it was given; so it
\* does for an empty text and for the target "en", where the service is not
\* called.
C16_TranslateFailureKeepsText ==
    probe.function = "safe_translate" =>
        /\ probe.outcome \in {"empty", "error"} => probe.result = probe.text
        /\ (probe.text = "" \/ probe.arg = "en") => probe.result = probe.text

\* safe_translate was called for a translation into Chinese and the
\* service failed.
C16_Witness ==
    /\ probe.function = "safe_translate"
    /\ probe.arg = "zh-cn"
    /\ probe.text = "Hello"
    /\ probe.outcome \in {"empty", "error"}
    /\ probe.result = "Hello"

\* Whether the text has a character of U+4E00..U+9FFF.
HasIdeograph(text) ==
    \E i \in 1..Len(text) :
        /\ Len(text[i]) > 1
        /\ CodePoint(text[i]) >= 19968
        /\ CodePoint(text[i]) <= 40959

\* C17 -- Language detection: a text with a character of U+4E00..U+9FFF is
\* "zh-cn" whatever the detector does; for any other text a failure of the
\* detector gives "en".
C17_IdeographsAreChinese ==
    probe.function = "safe_detect_language" =>
        /\ HasIdeograph(probe.text) =>
              /\ probe.result = "zh-cn"
              /\ \A detected \in DetectorOutcomes :
                    safe_detect_language(probe.text, detected) = "zh-cn"
        /\ (~HasIdeograph(probe.text) /\ probe.outcome = "error") => probe.result = "en"

\* A text with a Chinese character was detected while the detector named
\* another language.
C17_Witness ==
    /\ probe.function = "safe_detect_language"
    /\ probe.text = <<"h", "i", "U+4E2D">>
    /\ probe.outcome = "en"
    /\ probe.result = "zh-cn"

\* The combined scores of the questions of a knowledge base for a text.
Scores(user_input, knowledge_base) ==
    [i \in 1..Len(knowledge_base) |-> combined_score(user_input, knowledge_base[i].question)]

\* Whether fuzzy_match_kb's result is the answer and the score of entry i,
\* no entry scoring higher and no earlier entry scoring as high.
IsTopEntry(result, knowledge_base, scores, i) ==
    /\ result.response = knowledge_base[i].answer
    /\ result.confidence = scores[i]
    /\ \A j \in 1..Len(knowledge_base) : ~FGreater(scores[j], scores[i])
    /\ \A j \in 1..(i - 1) : FLess(scores[j], scores[i])

\* The claim of C20 for one result and the scores of the entries.
RankedFirst(result, knowledge_base, scores) ==
    IF \E i \in 1..Len(knowledge_base) : FGreater(scores[i], F0_3)
    THEN \E i \in 1..Len(knowledge_base) : IsTopEntry(result, knowledge_base, scores, i)
    ELSE /\ result.confidence = FZero
         /\ result.response \in {"No relevant information found.", "Knowledge base is empty."}

\* C20 -- Fuzzy ranking: with an entry whose combined score is above 0.3,
\* fuzzy_match_kb returns the answer and the score of the entry with the
\* highest score, the earliest of them on a tie; with none it returns a
\* no-match text at confidence 0.
C20_FuzzyRanking ==
    probe.function = "fuzzy_match_kb" =>
        RankedFirst(probe.result, load_knowledge_base(probe.arg),
                    Scores(probe.text, load_knowledge_base(probe.arg)))

\* fuzzy_match_kb was called with a question two rows of the data file
\* ask, and has returned the answer of the first.
C20_Witness ==
    /\ probe.function = "fuzzy_match_kb"
    /\ probe.arg = "csv"
    /\ probe.text = Chars("parking permit")
    /\ probe.result.response = "Parking permits are sold at the security office."
    /\ probe.result.confidence = F1_0

\* The last message sent to the desktop chatbot starts with "/weather".
WeatherCommand ==
    /\ app_last.msg # <<>>
    /\ Len(app_last.msg) >= 8
    /\ lower(SubSeq(app_last.msg, 1, 8)) = Chars("/weather")

\* Whether the message has a second word.
HasArgument(msg) ==
    \E i \in 1..Len(msg) : \E j \in (i + 1)..Len(msg) :
        msg[i] \in Whitespace /\ msg[j] \notin Whitespace

\* C18 -- Explicit command stage: a message that starts with "/weather" is
\* answered by the command stage, without the FAQ, the keywords or the
\* classifier; without a city it gets the usage error, with a city the
\* line of get_weather, which is a fixed text when the service fails.
C18_WeatherCommand ==
    WeatherCommand =>
        /\ app_last.stage = "command"
        /\ app_last.called \cap {"check_faq", "tokenize", "bag_of_words", "model"} = {}
        /\ app_last.output = NoOutput
        /\ IF HasArgument(app_last.msg)
           THEN /\ app_last.called = {"get_weather"}
                /\ app_last.response \in
                     { ":x: U+57CE U+5E02 U+627E U+4E0D U+5230 U+6216 API U+9519 U+8BEF",
                       ":x: U+83B7 U+53D6 U+5929 U+6C14 U+5931 U+8D25",
                       ":sun: paris U+5F53 U+524D 21.0C, Sunny" }
           ELSE /\ app_last.called = {}
                /\ app_last.response = ":exclamation: U+683C U+5F0F U+9519 U+8BEF /weather <city>"

\* The weather of a city was asked for and the request failed.
C18_Witness ==
    /\ WeatherCommand
    /\ app_last.msg = Chars("/weather Paris")
    /\ app_last.response = ":x: U+83B7 U+53D6 U+5929 U+6C14 U+5931 U+8D25"
    /\ Len(chat_log) >= 2

\* The responses of the intent of intents.json with this tag.
Templates(tag) ==
    UNION { {intents[i].responses[k] : k \in 1..Len(intents[i].responses)} :
              i \in {n \in 1..Len(intents) : intents[n].tag = tag} }

\* C19 -- Classifier acceptance: when get_response reaches the classifier,
\* the response is one of the responses of the predicted tag if and only if
\* the probability of the tag is above 0.75 and intents.json has the tag;
\* in every other case it is the fallback of line 130.
C19_ClassifierAcceptance ==
    "model" \in app_last.called =>
        IF FGreater(app_last.output.prob, FDiv(3, 4))
             /\ Templates(tags[app_last.output.predicted]) # {}
        THEN app_last.response \in Templates(tags[app_last.output.predicted])
        ELSE /\ app_last.response = app_fallback
             /\ app_last.response \notin Templates(tags[app_last.output.predicted])

\* The model gave its tag the probability 0.75 and the fallback was
\* returned.
C19_Witness ==
    /\ "model" \in app_last.called
    /\ app_last.output.prob = FDiv(3, 4)
    /\ tags[app_last.output.predicted] = "greeting"
    /\ app_last.response = app_fallback

\* C21 -- Input translation before matching: when the detected language is
\* not English and the translation service works, the translated_input
\* that get_enhanced_response matches and checks keywords on is the
\* translation of the input into English, not the original text.  Stated
\* for the inputs that are not in English: their translation differs from
\* the text.
C21_InputTranslated ==
    ( /\ probe.function = "translated_input"
      /\ probe.arg # "en"
      /\ probe.outcome = "translated"
      /\ probe.text # Chars("hello") )
        => probe.result # probe.text

\* The sequence in the opposite order.
Reversed(seq) == [i \in 1..Len(seq) |-> seq[Len(seq) + 1 - i]]

\* C22 -- Vectorization has set semantics: bag_of_words returns a vector
\* of length len(vocabulary) that is the same for the reversed tokens, for
\* the tokens repeated, and for every other token sequence with the same
\* set of stems (every permutation and duplication among them).
C22_SetSemantics ==
    probe.function = "bag_of_words" =>
        /\ Len(probe.result) = Len(probe.arg)
        /\ bag_of_words(Reversed(probe.text), probe.arg) = probe.result
        /\ bag_of_words(probe.text \o probe.text, probe.arg) = probe.result
        /\ \A other \in TokenSequences :
              Stems(other) = Stems(probe.text)
                  => bag_of_words(other, probe.arg) = probe.result

\* bag_of_words was called with a token repeated and two tokens of one
\* stem in an order that is not sorted, and set an entry of the vector.
C22_Witness ==
    /\ probe.function = "bag_of_words"
    /\ probe.text = << Chars("thanks"), Chars("Hello"), Chars("thanks") >>
    /\ probe.arg = << Chars("class"), Chars("hello"), Chars("thank") >>
    /\ probe.result = <<0, 1, 1>>

\* C23 -- History pairing invariant: in every reachable state the history
\* has even length and consists of pairs ("You", input), ("Bot", response),
\* one pair for each turn processed since the last clear, on failure paths
\* as well as on successful turns.
C23_HistoryPaired ==
    /\ Len(history) % 2 = 0
    /\ \A i \in 1..Len(history) :
          history[i][1] = (IF i % 2 = 1 THEN "You" ELSE "Bot")
    /\ Len(history) \div 2 = Len(processed)

\* The courses with a keyword in the input of the turn recorded in `turn`.
CoursesNamedIn(turn) ==
    MentionedCourses(lower(turn.translated_input), turn.translated_input)

\* C24 -- Topic frame condition: current_course changes only on Clear Chat
\* History, where it becomes None, and in a course-inquiry turn whose input
\* has a keyword of a course, where it becomes that course; every other
\* step (a turn of another intent, a generic course listing, an error, a
\* dropped call) leaves it unchanged.
C24_TopicFrame ==
    [][ /\ current_course' # current_course =>
              \/ ClearChat /\ current_course' = None
              \/ /\ pc = "running" /\ event' = "turn:done"
                 /\ last'.intent = "course_inquiry"
                 /\ \E i \in CoursesNamedIn(last') : current_course' = COURSES[i].name
        /\ ( /\ pc = "running" /\ event' = "turn:done"
             /\ last'.intent = "course_inquiry"
             /\ CoursesNamedIn(last') # {} )
              => current_course' = COURSES[Min(CoursesNamedIn(last'))].name
      ]_vars

\* A turn named a course, and a later turn of another intent left it the
\* course of the conversation.
C24_Witness ==
    /\ event = "turn:done"
    /\ current_course = "nursing"
    /\ last.current_course = "nursing"
    /\ last.intent \in {"fees", "greeting", "general"}

\* The turn of the text t was processed, the chat was cleared after it and
\* no call was made since; no turn is in flight.
ClearedAfter(t) ==
    /\ last # NoTurn
    /\ last.user_input = t
    /\ event = "turn:done"
    /\ history = <<>>
    /\ pc = "idle"
    /\ ~processing

\* C25 -- Clear Chat History effect: the clear action empties the history
\* and the context window, sets current_course and course_pending to None
\* and last_processed to the empty string, and leaves session_id,
\* user_language and the processing guard unchanged; after it, with no
\* turn in flight, the text of the previously processed turn submitted in
\* the form is not suppressed as a repetition: its turn starts.
C25_ClearEffect ==
    [][ /\ ClearChat =>
              /\ history' = <<>>
              /\ conversation_context' = <<>>
              /\ current_course' = None
              /\ course_pending' = None
              /\ last_processed' = <<>>
              /\ UNCHANGED << session_id, user_language, processing >>
        /\ \A t \in TypedTexts :
              ClearedAfter(t) /\ FormSubmit(t) =>
                  /\ pc' = "running"
                  /\ call' = t
                  /\ last_processed' = t
                  /\ event' = "call:started"
      ]_vars

\* A text was processed from the form, the chat cleared with a course of
\* the conversation set, and the same text submitted again: its turn runs.
C25_Witness ==
    /\ pc = "running"
    /\ history = <<>>
    /\ current_course = None
    /\ last.current_course # None \/ last.intent = "course_inquiry"
    /\ call = last.user_input
    /\ last_processed = call
    /\ turns = 2

====
